---- MODULE Spec2Model ----
(***************************************************************************)
(* Hive tower simulation: the entity/component store (ECSWorld), the       *)
(* placement validator (MouseSystem), the agent state machine              *)
(* (AgentSystem) and the elevator engine (ElevatorSystem) of               *)
(* engine/ECS/World.ts, driven as engine/Core/Game.ts drives them.         *)
(*                                                                         *)
(* Lengths are integers in thousandths of a tile (position.x = 1.5 is      *)
(* 1500), times are milliseconds.  The JS Set `entities` iterates in       *)
(* insertion order, and ids are inserted in increasing order only, so      *)
(* every query enumerates entities in increasing id order.                 *)
(***************************************************************************)
EXTENDS Integers, Sequences, FiniteSets, TLC

VARIABLES nextEntityId, entities, components, money, ret, issued, trips, clock

vars == <<nextEntityId, entities, components, money, ret, issued, trips, clock>>

(***************************************************************************)
(* Bounds of the model.                                                    *)
(***************************************************************************)
\* ids the store may hand out under SpecECS before creation is cut off
MaxEcsIds == 3
\* ids the store may hand out under SpecBuild before creation is cut off
MaxBuildIds == 3
\* columns 0..MaxCol are offered to the placement tools
MaxCol == 2
\* rows GROUND_ROW-MaxUp..GROUND_ROW are offered to the placement tools
MaxUp == 1
\* ids the store may hand out under SpecSim before creation is cut off
MaxSimIds == 13
\* trips issued under SpecSim before issuing is cut off
MaxTrips == 2
\* under SpecSim ticks stop once an agent has waited this long at a shaft
MaxWaitMs == 1500
\* under SpecRush ticks stop once an agent has waited this long at a shaft
MaxRushWaitMs == 1800
\* visitors in the lobby under SpecRush
RushAgents == 5
\* trips issued under SpecRush before issuing is cut off
MaxRushTrips == 5
\* ids the store may hand out under SpecRush before creation is cut off
MaxRushIds == 11
\* visitors in the lobby under SpecBank
BankAgents == 2
\* calls of issueTrip under SpecBank
MaxBankTrips == 2
\* ids the store may hand out under SpecBank: the site and one car per column
MaxBankIds == 10
\* a frame runs under SpecBank only while every agent has waited less than this
MaxBankWaitMs == 3000
\* visitors one tile away from the waiting tile under SpecQueue
FarAgents == 2
\* visitors on the waiting tile under SpecQueue
NearAgents == 3
\* calls of issueTrip under SpecQueue
MaxQueueTrips == 5
\* ids the store may hand out under SpecQueue: the site and its car
MaxQueueIds == 11
\* a frame runs under SpecQueue only while every agent has waited less than this
MaxQueueWaitMs == 1200
\* columns 0..MaxRoomCol are offered to the room tools under SpecRooms
MaxRoomCol == 3
\* the elapsed time of SpecRoutine ends after lunch, at a quarter to one
MaxRoutineMs == 25500
\* people Game spawns under SpecRoutine
MaxRoutineAgents == 3
\* the rightmost ground cell the player edits under SpecShafts
MaxShaftCol == 2
\* ids the store may hand out under SpecShafts
MaxShaftIds == 7

\* under SpecFunds the player starts to build at this time of the game loop,
\* a few game minutes before the first midnight
FundsFromMs == 47800
\* the game loop's elapsed time under SpecFunds stops here, after midnight
MaxFundsMs == 48200
\* ids the store may hand out under SpecFunds
MaxFundsIds == 6

\* visitors in the lobby under SpecRide
RideAgents == 2
\* calls of issueTrip under SpecRide
MaxRideTrips == 3
\* ids the store may hand out under SpecRide: the site and the car
MaxRideIds == 12
\* a frame runs under SpecRide only while every agent has waited less than this
MaxRideWaitMs == 6000

\* calls of issueTrip under SpecStress
MaxStressTrips == 3
\* under SpecStress the trip of an agent that waited this long is issued again
RetryAfterMs == 27500
\* a frame runs under SpecStress only while every agent has waited less than this
MaxStressWaitMs == 28000
\* visitors left of the bank under SpecTie
LeftAgents == 2
\* calls of issueTrip under SpecTie
MaxTieTrips == 3
\* ids the store may hand out under SpecTie: the site and one car per column
MaxTieIds == 17
\* a frame runs under SpecTie only while every agent has waited less than this
MaxTieWaitMs == 4000
\* the game loop's elapsed time under SpecClock stops here: two midnights
\* and the life of the texts of the second
MaxClockMs == 97600

(***************************************************************************)
(* Program constants.                                                      *)
(***************************************************************************)
GRID_ROWS == 20
GROUND_ROW == GRID_ROWS - 2
MsPerSecond == 1000
FLOOR_COST == 10
OFFICE_COST == 700
CONDO_COST == 900
FOOD_COURT_COST == 1200
ELEVATOR_COST == 2000
DELETE_COST == 0

\* null / undefined in a numeric field (number | null)
NULL == -999999

ComponentKey ==
  {"position", "velocity", "renderable", "agent", "schedule", "floor",
   "elevator", "elevatorCar", "influence", "condo", "floatingText"}

TOOL_COSTS(tool) ==
  CASE tool = "floor" -> FLOOR_COST
    [] tool = "office" -> OFFICE_COST
    [] tool = "condo" -> CONDO_COST
    [] tool = "food_court" -> FOOD_COURT_COST
    [] tool = "elevator" -> ELEVATOR_COST
    [] OTHER -> DELETE_COST

(***************************************************************************)
(* Small helpers on numbers, sets and stores.                              *)
(***************************************************************************)
Abs(n) == IF n < 0 THEN -n ELSE n

Min2(a, b) == IF a < b THEN a ELSE b

Max2(a, b) == IF a > b THEN a ELSE b

SetMin(S) == CHOOSE m \in S : \A n \in S : m <= n

SetMax(S) == CHOOSE m \in S : \A n \in S : m >= n

\* Math.round on thousandths: the nearest whole tile, halves rounded up
Round(v) == (v + 500) \div MsPerSecond

\* a whole tile coordinate in thousandths
Tile(n) == n * MsPerSecond

RECURSIVE SortedSeq(_)
SortedSeq(S) ==
  IF S = {} THEN <<>> ELSE <<SetMin(S)>> \o SortedSeq(S \ {SetMin(S)})

\* Map.set on a store
StorePut(store, id, value) ==
  [e \in (DOMAIN store) \cup {id} |-> IF e = id THEN value ELSE store[e]]

\* Map.delete on a store
StoreDel(store, id) == [e \in (DOMAIN store) \ {id} |-> store[e]]

EmptyStore == [e \in {} |-> 0]

(***************************************************************************)
(* ECSWorld.  A world value w is [nextEntityId, entities, components].     *)
(***************************************************************************)
World ==
  [nextEntityId |-> nextEntityId, entities |-> entities, components |-> components]

NewWorld ==
  [nextEntityId |-> 1, entities |-> {},
   components |-> [k \in ComponentKey |-> EmptyStore]]

\* mutant: the id counter is not advanced
createEntityNoAdvance(w) == [w EXCEPT !.entities = w.entities \cup {w.nextEntityId}]

createEntity(w) ==
  [w EXCEPT !.nextEntityId = w.nextEntityId + 1,
            !.entities = w.entities \cup {w.nextEntityId}]

\* the id the createEntity call on w returns
createdId(w) == w.nextEntityId

\* mutant: the position store is skipped
destroyEntityKeepsPosition(w, entityId) ==
  [w EXCEPT !.entities = w.entities \ {entityId},
            !.components = [k \in ComponentKey |->
               IF k = "position" THEN w.components[k]
               ELSE StoreDel(w.components[k], entityId)]]

destroyEntity(w, entityId) ==
  [w EXCEPT !.entities = w.entities \ {entityId},
            !.components = [k \in ComponentKey |-> StoreDel(w.components[k], entityId)]]

\* mutant: the liveness check is dropped
addComponentNeverThrows(w, entityId) == FALSE

\* addComponent throws on an unknown entity
addComponentThrows(w, entityId) == entityId \notin w.entities

addComponent(w, entityId, key, component) ==
  IF addComponentThrows(w, entityId)
  THEN w
  ELSE [w EXCEPT !.components[key] = StorePut(w.components[key], entityId, component)]

removeComponent(w, entityId, key) ==
  [w EXCEPT !.components[key] = StoreDel(w.components[key], entityId)]

has(w, entityId, key) == entityId \in DOMAIN w.components[key]

getComponent(w, entityId, key) == w.components[key][entityId]

\* the ids query(...required) returns, as a set; its order is increasing id
query(w, required) ==
  {e \in w.entities : \A k \in required : has(w, e, k)}

\* GameLoop.elapsedMs, Game.lastProcessedGameMinute, ZoningSystem.elapsedMs
\* and Game.nextAgentId as construction leaves them; processed lists the
\* calls of processMinute and crossed counts those of the last frame
NewClock ==
  [elapsedMs |-> 0, lastProcessedGameMinute |-> 0, zoningElapsedMs |-> 0,
   processed |-> <<>>, crossed |-> 0, nextAgentId |-> 1]

(***************************************************************************)
(* What the last call returned.  issued collects the ids createEntity has  *)
(* returned so far; trips counts the calls of issueTrip so far.            *)
(***************************************************************************)
NoRet ==
  [op |-> "none", id |-> 0, changedMap |-> FALSE, spent |-> 0, errorMessage |-> "",
   ok |-> FALSE, threw |-> FALSE]

SetWorld(w) ==
  /\ nextEntityId' = w.nextEntityId
  /\ entities' = w.entities
  /\ components' = w.components
  /\ issued' = issued \cup (w.entities \ entities) \cup (nextEntityId..(w.nextEntityId - 1))

(***************************************************************************)
(* MouseSystem: placement validation and commit.  A cell is [x, y] in      *)
(* whole tiles.                                                            *)
(***************************************************************************)
Cell(x, y) == [x |-> x, y |-> y]

PositionOf(cell) == [x |-> Tile(cell.x), y |-> Tile(cell.y)]

\* the first entity of the type at the cell, or NULL
getEntityByTypeAt(w, cell, type) ==
  LET hits == {e \in query(w, {"position", type}) :
                 getComponent(w, e, "position") = PositionOf(cell)}
  IN IF hits = {} THEN NULL ELSE SetMin(hits)

\* mutant: only a floor counts as a structure
getFloorEntityAt(w, cell) == getEntityByTypeAt(w, cell, "floor")

getStructureEntityAt(w, cell) ==
  IF getEntityByTypeAt(w, cell, "floor") # NULL
  THEN getEntityByTypeAt(w, cell, "floor")
  ELSE getEntityByTypeAt(w, cell, "elevator")

MouseHasFloorAt(w, cell) == getEntityByTypeAt(w, cell, "floor") # NULL

Neighbors(cell) ==
  {Cell(cell.x - 1, cell.y), Cell(cell.x + 1, cell.y),
   Cell(cell.x, cell.y - 1), Cell(cell.x, cell.y + 1)}

\* planned is the set of cells of the pending batch
isValidFloorSegmentPlacement(w, cell, planned) ==
  \/ cell.y = GROUND_ROW
  \/ \E n \in Neighbors(cell) :
       getEntityByTypeAt(w, n, "floor") # NULL \/ n \in planned

\* mutant: every cell counts as externally supported
hasExistingFloorNeighborAlways(w, cell) == TRUE

hasExistingFloorNeighbor(w, cell) ==
  \E n \in Neighbors(cell) : getEntityByTypeAt(w, n, "floor") # NULL

\* mutant: only the shaft segment below counts as a neighbour
isValidElevatorPlacementFromBelow(w, cell) ==
  \/ getEntityByTypeAt(w, Cell(cell.x, cell.y + 1), "elevator") # NULL
  \/ cell.y = GROUND_ROW

isValidElevatorPlacement(w, cell) ==
  \/ getEntityByTypeAt(w, Cell(cell.x, cell.y - 1), "elevator") # NULL
  \/ getEntityByTypeAt(w, Cell(cell.x, cell.y + 1), "elevator") # NULL
  \/ cell.y = GROUND_ROW

\* the run of cells of a drag, left to right, on the start row
getFloorDragCells(start, end) ==
  [i \in 1..(Max2(start.x, end.x) - Min2(start.x, end.x) + 1) |->
     Cell(Min2(start.x, end.x) + i - 1, start.y)]

SeqRange(s) == {s[i] : i \in DOMAIN s}

canBuildFloorCells(w, cells) ==
  /\ Len(cells) > 0
  /\ \A i \in DOMAIN cells :
       /\ getStructureEntityAt(w, cells[i]) = NULL
       /\ isValidFloorSegmentPlacement(w, cells[i], SeqRange(cells))
  /\ \/ cells[1].y = GROUND_ROW
     \/ \E i \in DOMAIN cells : hasExistingFloorNeighbor(w, cells[i])

spawnFloorSegment(w, cell) ==
  LET w1 == createEntity(w)
      id == createdId(w)
      w2 == addComponent(w1, id, "position", PositionOf(cell))
  IN addComponent(w2, id, "floor",
       [zone |-> IF cell.y = GROUND_ROW THEN "LOBBY" ELSE "HALLWAY",
        occupied |-> TRUE, rent |-> 0])

\* mutant: the loop stops after the first cell
spawnFloorSegmentsFirstOnly(w, cells, i) == spawnFloorSegment(w, cells[1])

RECURSIVE spawnFloorSegments(_, _, _)
spawnFloorSegments(w, cells, i) ==
  IF i > Len(cells) THEN w
  ELSE spawnFloorSegments(spawnFloorSegment(w, cells[i]), cells, i + 1)

Result(w, changedMap, spent, errorMessage) ==
  [w |-> w, changedMap |-> changedMap, spent |-> spent, errorMessage |-> errorMessage]

getFloorDragPreview(w, start, end, funds) ==
  LET cells == getFloorDragCells(start, end)
  IN [cells |-> cells, valid |-> canBuildFloorCells(w, cells),
      affordable |-> funds >= Len(cells) * TOOL_COSTS("floor"),
      cost |-> Len(cells) * TOOL_COSTS("floor")]

applyFloorDrag(w, start, end, funds) ==
  LET preview == getFloorDragPreview(w, start, end, funds)
  IN IF ~preview.valid THEN Result(w, FALSE, 0, "Invalid floor placement")
     ELSE IF ~preview.affordable THEN Result(w, FALSE, 0, "Insufficient funds")
     ELSE Result(spawnFloorSegments(w, preview.cells, 1),
                 Len(preview.cells) > 0, preview.cost, "")

IsRoomTool(tool) == tool \in {"office", "condo", "food_court"}

getRoomFootprint(tool, anchor) ==
  IF ~IsRoomTool(tool) THEN <<anchor>>
  ELSE [i \in 1..(IF tool = "food_court" THEN 3 ELSE 2) |->
          Cell(anchor.x + i - 1, anchor.y)]

\* mutant: the zone of the footprint tiles is not looked at
checkRoomPlacementAnyZone(w, tool, anchor) ==
  LET footprint == getRoomFootprint(tool, anchor)
      bad == {i \in DOMAIN footprint : getEntityByTypeAt(w, footprint[i], "floor") = NULL}
  IN IF tool = "condo" /\ anchor.y = GROUND_ROW
       THEN [valid |-> FALSE, requiresFloor |-> FALSE]
     ELSE IF tool = "food_court" /\ anchor.y # GROUND_ROW
       THEN [valid |-> FALSE, requiresFloor |-> FALSE]
     ELSE IF bad = {} THEN [valid |-> TRUE, requiresFloor |-> FALSE]
     ELSE [valid |-> FALSE, requiresFloor |-> TRUE]

\* [valid, requiresFloor]
checkRoomPlacement(w, tool, anchor) ==
  LET footprint == getRoomFootprint(tool, anchor)
      noFloor(i) == getEntityByTypeAt(w, footprint[i], "floor") = NULL
      wrongZone(i) ==
        getComponent(w, getEntityByTypeAt(w, footprint[i], "floor"), "floor").zone
          \notin {"HALLWAY", "LOBBY"}
      bad == {i \in DOMAIN footprint : noFloor(i) \/ wrongZone(i)}
  IN IF tool = "condo" /\ anchor.y = GROUND_ROW
       THEN [valid |-> FALSE, requiresFloor |-> FALSE]
     ELSE IF tool = "food_court" /\ anchor.y # GROUND_ROW
       THEN [valid |-> FALSE, requiresFloor |-> FALSE]
     ELSE IF bad = {} THEN [valid |-> TRUE, requiresFloor |-> FALSE]
     ELSE [valid |-> FALSE, requiresFloor |-> noFloor(SetMin(bad))]

RoomZone(tool) ==
  IF tool = "office" THEN "OFFICE" ELSE IF tool = "condo" THEN "CONDO" ELSE "FOOD_COURT"

\* one footprint tile of applyRoomPlacement; rnd is floor(Math.random() * 6)
zoneRoomTile(w, tool, cell, rnd) ==
  LET floorEntity == getEntityByTypeAt(w, cell, "floor")
      zone == RoomZone(tool)
      w1 == [w EXCEPT !.components.floor[floorEntity] =
               [zone |-> zone, occupied |-> TRUE,
                rent |-> IF zone = "FOOD_COURT" THEN 0 ELSE 100]]
  IN IF floorEntity = NULL THEN w
     ELSE IF zone = "OFFICE"
       THEN removeComponent(
              addComponent(w1, floorEntity, "influence",
                           [noiseRadius |-> 2, noiseIntensity |-> 5]),
              floorEntity, "condo")
     ELSE IF zone = "CONDO"
       THEN addComponent(removeComponent(w1, floorEntity, "influence"),
                         floorEntity, "condo",
                         [noiseSensitivity |-> 9 + rnd, warningActive |-> FALSE,
                          warningMinutes |-> 0, occupied |-> TRUE])
     ELSE removeComponent(removeComponent(w1, floorEntity, "influence"),
                          floorEntity, "condo")

RECURSIVE zoneRoomTiles(_, _, _, _, _)
zoneRoomTiles(w, tool, footprint, i, rnd) ==
  IF i > Len(footprint) THEN w
  ELSE zoneRoomTiles(zoneRoomTile(w, tool, footprint[i], rnd), tool, footprint, i + 1, rnd)

applyRoomPlacement(w, tool, anchor, funds, rnd) ==
  LET footprint == getRoomFootprint(tool, anchor)
      cost == Len(footprint) * TOOL_COSTS(tool)
      placementCheck == checkRoomPlacement(w, tool, anchor)
  IN IF funds < cost THEN Result(w, FALSE, 0, "Insufficient funds")
     ELSE IF ~placementCheck.valid
       THEN Result(w, FALSE, 0,
                   IF placementCheck.requiresFloor THEN "Requires Floor"
                   ELSE "Invalid placement")
     ELSE Result(zoneRoomTiles(w, tool, footprint, 1, rnd), TRUE, cost, "")

\* mutant: a floor may be previewed on a cell that holds a structure
isValidPlacementOverStructure(w, tool, cell) ==
  CASE tool = "delete" -> getStructureEntityAt(w, cell) # NULL
    [] tool = "elevator" ->
         getStructureEntityAt(w, cell) = NULL /\ isValidElevatorPlacement(w, cell)
    [] tool = "floor" -> isValidFloorSegmentPlacement(w, cell, {})
    [] IsRoomTool(tool) -> checkRoomPlacement(w, tool, cell).valid
    [] OTHER -> FALSE

isValidPlacement(w, tool, cell) ==
  CASE tool = "delete" -> getStructureEntityAt(w, cell) # NULL
    [] tool = "elevator" ->
         getStructureEntityAt(w, cell) = NULL /\ isValidElevatorPlacement(w, cell)
    [] tool = "floor" ->
         getStructureEntityAt(w, cell) = NULL /\ isValidFloorSegmentPlacement(w, cell, {})
    [] IsRoomTool(tool) -> checkRoomPlacement(w, tool, cell).valid
    [] OTHER -> FALSE

spawnShaftSegment(w, cell) ==
  addComponent(addComponent(createEntity(w), createdId(w), "position", PositionOf(cell)),
               createdId(w), "elevator", [kind |-> "elevator_shaft"])

\* setHoveredCell(cell) followed by getPlacementPreview(tool, funds); cost is
\* the local the preview compares the funds with
getPlacementPreview(w, tool, cell, funds) ==
  LET cost == IF tool = "floor" THEN TOOL_COSTS("floor")
              ELSE IF IsRoomTool(tool) THEN Len(getRoomFootprint(tool, cell)) * TOOL_COSTS(tool)
              ELSE TOOL_COSTS(tool)
  IN [cell |-> cell, valid |-> isValidPlacement(w, tool, cell),
      affordable |-> funds >= cost, tool |-> tool, cost |-> cost]

\* setHoveredCell(cell) followed by applyToolAtHoveredCell(tool, funds)
applyToolAtHoveredCell(w, tool, cell, funds, rnd) ==
  IF tool = "delete"
    THEN IF getStructureEntityAt(w, cell) = NULL THEN Result(w, FALSE, 0, "")
         ELSE Result(destroyEntity(w, getStructureEntityAt(w, cell)), TRUE, 0, "")
  ELSE IF tool = "floor" THEN applyFloorDrag(w, cell, cell, funds)
  ELSE IF IsRoomTool(tool) THEN applyRoomPlacement(w, tool, cell, funds, rnd)
  ELSE IF funds < TOOL_COSTS(tool) \/ ~isValidPlacement(w, tool, cell)
    THEN Result(w, FALSE, 0, "")
  ELSE IF tool = "elevator" THEN Result(spawnShaftSegment(w, cell), TRUE, TOOL_COSTS(tool), "")
  ELSE Result(w, FALSE, 0, "")

(***************************************************************************)
(* Module-level helpers of World.ts.  Agent and car fields that hold a     *)
(* floor or a column (sourceFloorY, waitX, column, stops, ...) are whole   *)
(* tiles; positions, speeds (per second) and stress are thousandths.       *)
(***************************************************************************)
WAIT_STRESS_THRESHOLD_MS == 15000
STRESS_GAIN_PER_SECOND == 6000
STRESS_DECAY_PER_SECOND == 2200
DISPATCH_DIRECTION_PENALTY == 8
MAX_STRESS == 100000
VISITOR_SPEED == 3100

clamp(value, min, max) == Max2(min, Min2(max, value))

Sign(n) == IF n > 0 THEN 1 ELSE IF n < 0 THEN -1 ELSE 0

moveTowards(current, target, maxDelta) ==
  IF Abs(target - current) <= maxDelta
  THEN [value |-> target, arrived |-> TRUE]
  ELSE [value |-> current + Sign(target - current) * maxDelta, arrived |-> FALSE]

computeDirection(sourceFloorY, targetFloorY) ==
  IF targetFloorY < sourceFloorY THEN "UP"
  ELSE IF targetFloorY > sourceFloorY THEN "DOWN"
  ELSE "NONE"

RECURSIVE dedupeStops(_)
dedupeStops(stops) ==
  IF stops = <<>> THEN <<>>
  ELSE LET front == dedupeStops(SubSeq(stops, 1, Len(stops) - 1))
           last == stops[Len(stops)]
       IN IF last \in SeqRange(front) THEN front ELSE Append(front, last)

SetAgent(w, e, agent) == [w EXCEPT !.components.agent[e] = agent]

SetPosition(w, e, position) == [w EXCEPT !.components.position[e] = position]

SetCar(w, e, car) == [w EXCEPT !.components.elevatorCar[e] = car]

(***************************************************************************)
(* AgentSystem.                                                            *)
(***************************************************************************)
\* the agent component Game.spawnVisitor attaches at spawnCell
NewVisitor(spawnCell) ==
  [mood |-> "neutral", speed |-> VISITOR_SPEED, phase |-> "IDLE", stress |-> 0,
   waitMs |-> 0, sourceFloorY |-> spawnCell.y, targetFloorY |-> spawnCell.y,
   targetX |-> spawnCell.x, targetY |-> spawnCell.y, desiredDirection |-> "NONE",
   assignedShaftX |-> NULL, waitX |-> NULL, assignedCarId |-> NULL,
   callRegistered |-> FALSE, despawnOnArrival |-> FALSE]

spawnVisitor(w, spawnCell) ==
  addComponent(
    addComponent(
      addComponent(createEntity(w), createdId(w), "position", PositionOf(spawnCell)),
      createdId(w), "renderable", [color |-> "#ef4444", shape |-> "square"]),
    createdId(w), "agent", NewVisitor(spawnCell))

\* AgentSystem.hasFloorAt and ElevatorSystem.hasFloorAt are the same code
hasFloorAt(w, x, y) ==
  \E e \in query(w, {"position", "floor"}) :
     getComponent(w, e, "position") = [x |-> Tile(x), y |-> Tile(y)]

\* the shaft columns in the order a Map keyed by column first sees them
ShaftColumnsInOrder(w) ==
  LET shafts == query(w, {"position", "elevator"})
      col(e) == getComponent(w, e, "position").x \div MsPerSecond
      first(c) == SetMin({e \in shafts : col(e) = c})
      firsts == {first(col(e)) : e \in shafts}
      order == SortedSeq(firsts)
  IN [i \in DOMAIN order |-> col(order[i])]

\* the floors a column's shaft segments stand on
ShaftFloors(w, column) ==
  {getComponent(w, e, "position").y \div MsPerSecond :
     e \in {s \in query(w, {"position", "elevator"}) :
              getComponent(w, s, "position").x = Tile(column)}}

getCandidateShaftColumns(w, sourceFloorY, targetFloorY) ==
  SelectSeq(ShaftColumnsInOrder(w),
            LAMBDA c : sourceFloorY \in ShaftFloors(w, c) /\ targetFloorY \in ShaftFloors(w, c))

\* mutant: the last column of lowest score wins
chooseLastBestShaftColumn(columns, sourceX, destinationX) ==
  LET score(c) == Abs(sourceX - Tile(c)) + Abs(Tile(destinationX) - Tile(c))
      best == CHOOSE i \in DOMAIN columns :
                /\ \A j \in DOMAIN columns : score(columns[i]) <= score(columns[j])
                /\ \A j \in (i + 1)..Len(columns) : score(columns[j]) > score(columns[i])
  IN columns[best]

\* sourceX in thousandths, destinationX in tiles; the first minimum wins
chooseBestShaftColumn(columns, sourceX, destinationX) ==
  LET score(c) == Abs(sourceX - Tile(c)) + Abs(Tile(destinationX) - Tile(c))
      best == CHOOSE i \in DOMAIN columns :
                /\ \A j \in DOMAIN columns : score(columns[i]) <= score(columns[j])
                /\ \A j \in 1..(i - 1) : score(columns[j]) > score(columns[i])
  IN columns[best]

\* mutant: the left neighbour is returned without looking for a floor
resolveWaitXUnchecked(w, shaftX, floorY, preferredX) == shaftX - 1

\* preferredX in thousandths; NULL when neither side has a floor
resolveWaitXForShaft(w, shaftX, floorY, preferredX) ==
  LET left == hasFloorAt(w, shaftX - 1, floorY)
      right == hasFloorAt(w, shaftX + 1, floorY)
  IN IF left /\ right
       THEN IF Abs(Tile(shaftX + 1) - preferredX) < Abs(Tile(shaftX - 1) - preferredX)
            THEN shaftX + 1 ELSE shaftX - 1
     ELSE IF left THEN shaftX - 1
     ELSE IF right THEN shaftX + 1
     ELSE NULL

\* [w, ok]: the world after the call and the boolean it returns
issueTrip(w, agentId, targetFloor, despawnOnArrival) ==
  IF ~has(w, agentId, "agent") \/ ~has(w, agentId, "position")
  THEN [w |-> w, ok |-> FALSE]
  ELSE
    LET position == getComponent(w, agentId, "position")
        sourceFloorY == Round(position.y)
        agent == [getComponent(w, agentId, "agent") EXCEPT
                    !.targetX = targetFloor.x, !.targetY = targetFloor.y,
                    !.targetFloorY = targetFloor.y, !.sourceFloorY = sourceFloorY,
                    !.desiredDirection = computeDirection(sourceFloorY, targetFloor.y),
                    !.assignedCarId = NULL, !.waitX = NULL, !.callRegistered = FALSE,
                    !.waitMs = 0, !.despawnOnArrival = despawnOnArrival]
        shafts == getCandidateShaftColumns(w, sourceFloorY, targetFloor.y)
        failed == [agent EXCEPT !.phase = "IDLE", !.mood = "angry"]
    IN IF sourceFloorY = targetFloor.y
         THEN [w |-> SetAgent(w, agentId, [agent EXCEPT !.assignedShaftX = NULL,
                                                         !.phase = "WALK_TO_TARGET"]),
               ok |-> TRUE]
       ELSE IF Len(shafts) = 0 THEN [w |-> SetAgent(w, agentId, failed), ok |-> FALSE]
       ELSE
         LET assignedShaft == chooseBestShaftColumn(shafts, position.x, targetFloor.x)
             waitX == resolveWaitXForShaft(w, assignedShaft, sourceFloorY, position.x)
         IN IF waitX = NULL THEN [w |-> SetAgent(w, agentId, failed), ok |-> FALSE]
            ELSE [w |-> SetAgent(w, agentId,
                          [agent EXCEPT !.assignedShaftX = assignedShaft, !.waitX = waitX,
                                        !.phase = "WALK_TO_SHAFT", !.mood = "neutral"]),
                  ok |-> TRUE]

isGroundExitEgressPhase(agent) ==
  /\ agent.despawnOnArrival
  /\ agent.targetY = GROUND_ROW
  /\ agent.phase \in {"WALK_TO_TARGET", "AT_TARGET"}

\* mutant: the cooled stress is not clamped
coolStressUnclamped(agent, deltaMs) ==
  LET stress == agent.stress - (deltaMs * STRESS_DECAY_PER_SECOND) \div MsPerSecond
  IN [agent EXCEPT !.stress = stress,
                   !.mood = IF stress > 65000 THEN "angry"
                            ELSE IF agent.phase = "AT_TARGET" THEN "happy"
                            ELSE "neutral"]

coolStress(agent, deltaMs) ==
  LET stress == clamp(agent.stress - (deltaMs * STRESS_DECAY_PER_SECOND) \div MsPerSecond,
                      0, MAX_STRESS)
  IN [agent EXCEPT !.stress = stress,
                   !.mood = IF stress > 65000 THEN "angry"
                            ELSE IF agent.phase = "AT_TARGET" THEN "happy"
                            ELSE "neutral"]

\* the WALK_TO_SHAFT branch of AgentSystem.update for one agent
walkToShaft(w, e, position, agent, deltaMs) ==
  IF agent.assignedShaftX = NULL \/ agent.waitX = NULL \/ agent.sourceFloorY = NULL
  THEN SetAgent(w, e, [agent EXCEPT !.phase = "IDLE"])
  ELSE
    LET step == moveTowards(position.x, Tile(agent.waitX),
                            (agent.speed * deltaMs) \div MsPerSecond)
        walked == IF step.arrived
                  THEN [agent EXCEPT !.phase = "WAIT_AT_SHAFT", !.waitMs = 0]
                  ELSE agent
    IN IF ~hasFloorAt(w, Round(step.value), agent.sourceFloorY)
       THEN destroyEntity(w, e)
       ELSE SetAgent(SetPosition(w, e, [x |-> step.value, y |-> Tile(agent.sourceFloorY)]),
                     e, coolStress(walked, deltaMs))

\* the WAIT_AT_SHAFT branch
waitAtShaft(w, e, position, agent, deltaMs) ==
  LET y == IF agent.sourceFloorY # NULL THEN Tile(agent.sourceFloorY) ELSE position.y
      x == IF /\ agent.waitX # NULL
              /\ agent.sourceFloorY # NULL
              /\ ~hasFloorAt(w, Round(position.x), agent.sourceFloorY)
           THEN Tile(agent.waitX) ELSE position.x
      waitMs == agent.waitMs + deltaMs
      stress == IF waitMs > WAIT_STRESS_THRESHOLD_MS
                THEN clamp(agent.stress + (deltaMs * STRESS_GAIN_PER_SECOND) \div MsPerSecond,
                           0, MAX_STRESS)
                ELSE agent.stress
  IN SetAgent(SetPosition(w, e, [x |-> x, y |-> y]), e,
              [agent EXCEPT !.waitMs = waitMs, !.stress = stress,
                            !.mood = IF stress > 60000 THEN "angry" ELSE "neutral"])

\* the RIDING branch
riding(w, e, position, agent, deltaMs) ==
  LET followed ==
        IF agent.assignedCarId # NULL /\ has(w, agent.assignedCarId, "position")
        THEN SetPosition(w, e, getComponent(w, agent.assignedCarId, "position"))
        ELSE w
  IN SetAgent(followed, e, coolStress(agent, deltaMs))

\* the WALK_TO_TARGET branch
walkToTarget(w, e, position, agent, deltaMs) ==
  LET step == moveTowards(position.x, Tile(agent.targetX),
                          (agent.speed * deltaMs) \div MsPerSecond)
      walked == IF step.arrived
                THEN [agent EXCEPT !.phase = "AT_TARGET", !.mood = "happy"]
                ELSE agent
  IN IF ~isGroundExitEgressPhase(agent) /\ ~hasFloorAt(w, Round(step.value), agent.targetY)
       THEN destroyEntity(w, e)
     ELSE IF step.arrived /\ agent.despawnOnArrival /\ agent.targetY = GROUND_ROW
       THEN destroyEntity(w, e)
     ELSE SetAgent(SetPosition(w, e, [x |-> step.value, y |-> Tile(agent.targetY)]),
                   e, coolStress(walked, deltaMs))

\* mutant: the floor under the agent is not looked at
updateAgentNoStandingCheck(w, e, deltaMs) ==
  LET position == getComponent(w, e, "position")
      agent == getComponent(w, e, "agent")
  IN CASE agent.phase = "WALK_TO_SHAFT" -> walkToShaft(w, e, position, agent, deltaMs)
       [] agent.phase = "WAIT_AT_SHAFT" -> waitAtShaft(w, e, position, agent, deltaMs)
       [] agent.phase = "RIDING" -> riding(w, e, position, agent, deltaMs)
       [] agent.phase = "WALK_TO_TARGET" -> walkToTarget(w, e, position, agent, deltaMs)
       [] OTHER -> SetAgent(w, e, coolStress(agent, deltaMs))

\* the body of the loop of AgentSystem.update for one agent
updateAgent(w, e, deltaMs) ==
  LET position == getComponent(w, e, "position")
      agent == getComponent(w, e, "agent")
  IN IF /\ agent.phase # "RIDING"
        /\ ~isGroundExitEgressPhase(agent)
        /\ ~hasFloorAt(w, Round(position.x), Round(position.y))
       THEN destroyEntity(w, e)
     ELSE CASE agent.phase = "WALK_TO_SHAFT" -> walkToShaft(w, e, position, agent, deltaMs)
            [] agent.phase = "WAIT_AT_SHAFT" -> waitAtShaft(w, e, position, agent, deltaMs)
            [] agent.phase = "RIDING" -> riding(w, e, position, agent, deltaMs)
            [] agent.phase = "WALK_TO_TARGET" -> walkToTarget(w, e, position, agent, deltaMs)
            [] OTHER -> SetAgent(w, e, coolStress(agent, deltaMs))

\* a loop `for (const e of ids) w = body(w, e)` over ids from index i on
RECURSIVE updateAgents(_, _, _, _)
updateAgents(w, ids, i, deltaMs) ==
  IF i > Len(ids) THEN w
  ELSE updateAgents(updateAgent(w, ids[i], deltaMs), ids, i + 1, deltaMs)

AgentSystemUpdate(w, deltaMs) ==
  updateAgents(w, SortedSeq(query(w, {"position", "agent"})), 1, deltaMs)

(***************************************************************************)
(* ElevatorSystem.  floorsByColumn is rebuilt from the shaft segments at   *)
(* the start of update and no step of update touches a shaft segment, so   *)
(* ShaftColumnsInOrder and ShaftFloors of the current world are its keys   *)
(* and values throughout.                                                  *)
(***************************************************************************)
UNLOAD_DURATION_MS == 450
LOAD_DURATION_MS == 500
CAR_SPEED == 2800
CAR_CAPACITY == 4

Cars(w) == query(w, {"position", "elevatorCar"})

Agents(w) == query(w, {"position", "agent"})

\* the banks as a sequence of [id, columns]: maximal runs of adjacent columns
buildBanks(columns) ==
  LET sorted == SortedSeq(columns)
      bankOf(i) == 1 + Cardinality({j \in 2..i : sorted[j] - sorted[j - 1] > 1})
      count == IF sorted = <<>> THEN 0 ELSE bankOf(Len(sorted))
      members(b) == {sorted[i] : i \in {j \in DOMAIN sorted : bankOf(j) = b}}
  IN [b \in 1..count |-> [id |-> b, columns |-> SortedSeq(members(b))]]

\* the id of the bank that holds the column, or NULL
buildBankLookup(banks, column) ==
  LET holding == {b \in DOMAIN banks : column \in SeqRange(banks[b].columns)}
  IN IF holding = {} THEN NULL ELSE banks[SetMax(holding)].id

NewCar(column, bankId) ==
  [state |-> "IDLE", direction |-> "NONE", speed |-> CAR_SPEED, column |-> column,
   bankId |-> bankId, stopQueue |-> <<>>, phaseTimerMs |-> 0,
   capacity |-> CAR_CAPACITY, occupants |-> <<>>]

\* carsByColumn of syncCars: the last car seen for every column a car names
carsByColumn(w) ==
  LET column(e) == getComponent(w, e, "elevatorCar").column
  IN [c \in {column(e) : e \in Cars(w)} |-> SetMax({e \in Cars(w) : column(e) = c})]

\* mutant: a car that exists keeps the bank id it was made with
syncColumnKeepsBank(w, column, cars, banks) ==
  LET bankId == buildBankLookup(banks, column)
      id == createdId(w)
      spawnFloor == SetMax(ShaftFloors(w, column))
  IN IF bankId = NULL \/ column \in DOMAIN cars THEN w
     ELSE addComponent(
            addComponent(
              addComponent(createEntity(w), id, "position", PositionOf(Cell(column, spawnFloor))),
              id, "renderable", [color |-> "#38bdf8", shape |-> "square"]),
            id, "elevatorCar", NewCar(column, bankId))

\* second loop of syncCars, one column: refresh the bank id or spawn a car
syncColumn(w, column, cars, banks) ==
  LET bankId == buildBankLookup(banks, column)
      id == createdId(w)
      spawnFloor == SetMax(ShaftFloors(w, column))
  IN IF bankId = NULL THEN w
     ELSE IF column \in DOMAIN cars
       THEN SetCar(w, cars[column],
                   [getComponent(w, cars[column], "elevatorCar") EXCEPT !.bankId = bankId])
     ELSE addComponent(
            addComponent(
              addComponent(createEntity(w), id, "position", PositionOf(Cell(column, spawnFloor))),
              id, "renderable", [color |-> "#38bdf8", shape |-> "square"]),
            id, "elevatorCar", NewCar(column, bankId))

RECURSIVE syncColumns(_, _, _, _, _)
syncColumns(w, columns, i, cars, banks) ==
  IF i > Len(columns) THEN w
  ELSE syncColumns(syncColumn(w, columns[i], cars, banks), columns, i + 1, cars, banks)

\* mutant: the car is destroyed and its agents are left as they were
removeCarOnly(w, carEntity) == destroyEntity(w, carEntity)

\* third loop of syncCars, one car whose column lost its shaft
removeCar(w, carEntity) ==
  LET gone == destroyEntity(w, carEntity)
      reset(agent) ==
        IF agent.assignedCarId # carEntity THEN agent
        ELSE [agent EXCEPT !.assignedCarId = NULL, !.waitX = NULL,
                           !.callRegistered = FALSE, !.phase = "WAIT_AT_SHAFT"]
  IN [gone EXCEPT !.components.agent =
        [e \in DOMAIN @ |-> IF e \in query(gone, {"agent"}) THEN reset(@[e]) ELSE @[e]]]

RECURSIVE removeCars(_, _, _)
removeCars(w, doomed, i) ==
  IF i > Len(doomed) THEN w ELSE removeCars(removeCar(w, doomed[i]), doomed, i + 1)

syncCars(w, banks) ==
  LET cars == carsByColumn(w)
      columns == ShaftColumnsInOrder(w)
      doomed == {cars[c] : c \in (DOMAIN cars) \ SeqRange(columns)}
  IN removeCars(syncColumns(w, columns, 1, cars, banks), SortedSeq(doomed), 1)

\* mutant: a floor that is already queued is queued again
addStopAgain(car, floor) == [car EXCEPT !.stopQueue = Append(@, floor)]

addStop(car, floor) ==
  IF floor \in SeqRange(car.stopQueue) THEN car
  ELSE [car EXCEPT !.stopQueue = Append(@, floor)]

\* the dispatch score of a car for a call, times 10000
dispatchScore(w, carEntity, agent) ==
  LET car == getComponent(w, carEntity, "elevatorCar")
      carPosition == getComponent(w, carEntity, "position")
      directionPenalty ==
        IF car.direction = "NONE" \/ car.direction = agent.desiredDirection
        THEN 0 ELSE DISPATCH_DIRECTION_PENALTY
  IN 10 * Abs(carPosition.y - Tile(agent.sourceFloorY))
       + 10000 * directionPenalty
       + 20000 * Len(car.occupants)
       + 14000 * Len(car.stopQueue)
       + 8000 * Abs(car.column - agent.assignedShaftX)

\* mutant: a later car with an equal score replaces the best one
scanCarsLastMinimum(w, agent, cars, i, bestCarEntity, bestScore) ==
  LET candidates == {j \in i..Len(cars) :
                       /\ agent.sourceFloorY
                            \in ShaftFloors(w, getComponent(w, cars[j], "elevatorCar").column)
                       /\ agent.targetFloorY
                            \in ShaftFloors(w, getComponent(w, cars[j], "elevatorCar").column)}
      lowest == {j \in candidates :
                   \A k \in candidates :
                      dispatchScore(w, cars[j], agent) <= dispatchScore(w, cars[k], agent)}
  IN IF candidates = {} THEN bestCarEntity ELSE cars[SetMax(lowest)]

\* the loop of dispatchCalls over the cars of the bank from the i-th on;
\* bestScore counts only once bestCarEntity is not NULL
RECURSIVE scanCars(_, _, _, _, _, _)
scanCars(w, agent, cars, i, bestCarEntity, bestScore) ==
  IF i > Len(cars) THEN bestCarEntity
  ELSE LET servedFloors == ShaftFloors(w, getComponent(w, cars[i], "elevatorCar").column)
           score == dispatchScore(w, cars[i], agent)
       IN IF agent.sourceFloorY \notin servedFloors \/ agent.targetFloorY \notin servedFloors
            THEN scanCars(w, agent, cars, i + 1, bestCarEntity, bestScore)
          ELSE IF bestCarEntity = NULL \/ score < bestScore
            THEN scanCars(w, agent, cars, i + 1, cars[i], score)
          ELSE scanCars(w, agent, cars, i + 1, bestCarEntity, bestScore)

\* the car dispatch selects for the agent, or NULL
selectCar(w, agent, banks) ==
  LET bankId == buildBankLookup(banks, agent.assignedShaftX)
      carCandidates ==
        SortedSeq({c \in Cars(w) : getComponent(w, c, "elevatorCar").bankId = bankId})
  IN IF bankId = NULL THEN NULL ELSE scanCars(w, agent, carCandidates, 1, NULL, 0)

\* the agent after dispatch selected a car, which may stand in another column
crossColumn(w, agent, car) ==
  LET waitX == resolveWaitXForShaft(w, car.column, agent.sourceFloorY,
                 Tile(IF agent.waitX # NULL THEN agent.waitX ELSE agent.assignedShaftX))
  IN IF agent.assignedShaftX = car.column \/ waitX = NULL THEN agent
     ELSE [agent EXCEPT !.assignedShaftX = car.column, !.waitX = waitX,
                        !.phase = "WALK_TO_SHAFT"]

\* the body of the agent loop of dispatchCalls
dispatchAgent(w, agentEntity, banks) ==
  LET agent == getComponent(w, agentEntity, "agent")
      best == selectCar(w, agent, banks)
      car == getComponent(w, best, "elevatorCar")
  IN IF agent.phase # "WAIT_AT_SHAFT" THEN w
     ELSE IF agent.callRegistered /\ agent.assignedCarId # NULL THEN w
     ELSE IF agent.assignedShaftX = NULL \/ agent.sourceFloorY = NULL
               \/ agent.targetFloorY = NULL THEN w
     ELSE IF best = NULL THEN w
     ELSE SetAgent(
            SetCar(w, best, addStop(addStop(car, agent.sourceFloorY), agent.targetFloorY)),
            agentEntity,
            crossColumn(w, [agent EXCEPT !.assignedCarId = best, !.callRegistered = TRUE],
                        car))

RECURSIVE dispatchAgents(_, _, _, _)
dispatchAgents(w, ids, i, banks) ==
  IF i > Len(ids) THEN w
  ELSE dispatchAgents(dispatchAgent(w, ids[i], banks), ids, i + 1, banks)

dispatchCalls(w, banks) == dispatchAgents(w, SortedSeq(Agents(w)), 1, banks)

\* mutant: the callers keep the order of the query
SortByQueryOrder(w, ids) == SortedSeq(ids)

\* agents sorted by waitMs, longest first; Array.sort is stable, so equal
\* waits keep the id order of the query
SortByWait(w, ids) ==
  LET waitMs(e) == getComponent(w, e, "agent").waitMs
      before(e) == {b \in ids : waitMs(b) > waitMs(e) \/ (waitMs(b) = waitMs(e) /\ b < e)}
  IN [i \in 1..Cardinality(ids) |-> CHOOSE e \in ids : Cardinality(before(e)) = i - 1]

arrangeQueueLines(w) ==
  LET agent(e) == getComponent(w, e, "agent")
      queued == {e \in Agents(w) :
                   /\ agent(e).phase = "WAIT_AT_SHAFT"
                   /\ agent(e).sourceFloorY # NULL
                   /\ agent(e).assignedShaftX # NULL
                   /\ agent(e).waitX # NULL}
      key(e) == <<agent(e).sourceFloorY, agent(e).assignedShaftX, agent(e).waitX>>
      index(e) ==
        Cardinality({b \in queued :
                       /\ key(b) = key(e)
                       /\ \/ agent(b).waitMs > agent(e).waitMs
                          \/ agent(b).waitMs = agent(e).waitMs /\ b < e})
      direction(e) == IF agent(e).waitX < agent(e).assignedShaftX THEN -1 ELSE 1
      candidateX(e) == agent(e).waitX + direction(e) * index(e)
      assignedX(e) ==
        IF hasFloorAt(w, candidateX(e), agent(e).sourceFloorY)
        THEN candidateX(e) ELSE agent(e).waitX
  IN [w EXCEPT !.components.position =
        [e \in DOMAIN @ |->
           IF e \in queued
           THEN [x |-> Tile(assignedX(e)), y |-> Tile(agent(e).sourceFloorY)]
           ELSE @[e]]]

\* the riders of the car whose target is this floor, and where each leaves
unloadAtFloor(w, carEntity, column, floor) ==
  LET agent(e) == getComponent(w, e, "agent")
      car == getComponent(w, carEntity, "elevatorCar")
      arriving == {e \in Agents(w) :
                     /\ agent(e).phase = "RIDING"
                     /\ agent(e).assignedCarId = carEntity
                     /\ agent(e).targetFloorY = floor}
      exitX(e) == resolveWaitXForShaft(w, column, floor, Tile(agent(e).targetX))
      leaving == {e \in arriving : exitX(e) # NULL}
      released(e) ==
        [agent(e) EXCEPT !.phase = "WALK_TO_TARGET", !.sourceFloorY = floor,
                         !.assignedCarId = NULL, !.assignedShaftX = NULL,
                         !.waitX = NULL, !.callRegistered = FALSE, !.waitMs = 0]
      kept == [car EXCEPT !.occupants = SelectSeq(@, LAMBDA o : o \notin leaving)]
  IN IF ~has(w, carEntity, "elevatorCar") THEN w
     ELSE [w EXCEPT
             !.components.agent =
               [e \in DOMAIN @ |-> IF e \in leaving THEN released(e) ELSE @[e]],
             !.components.position =
               [e \in DOMAIN @ |->
                  IF e \in leaving THEN [x |-> Tile(exitX(e)), y |-> Tile(floor)] ELSE @[e]],
             !.components.elevatorCar[carEntity] =
               IF arriving \ leaving # {} THEN addStop(kept, floor) ELSE kept]

\* mutant: every waiting agent is let in
remainingCapacityUnlimited(car) == car.capacity

remainingCapacity(car) == Max2(0, car.capacity - Len(car.occupants))

\* the boarding loop of loadAtFloor from index i on
RECURSIVE boardAgents(_, _, _, _, _, _)
boardAgents(w, carEntity, column, floor, boarding, i) ==
  IF i > Len(boarding) THEN w
  ELSE
    LET e == boarding[i]
        agent == getComponent(w, e, "agent")
        car == getComponent(w, carEntity, "elevatorCar")
        seated == IF e \in SeqRange(car.occupants) THEN car
                  ELSE [car EXCEPT !.occupants = Append(@, e)]
        queued == IF agent.targetFloorY # NULL THEN addStop(seated, agent.targetFloorY)
                  ELSE seated
        boarded ==
          IF ~has(w, e, "position") THEN w
          ELSE SetCar(
                 SetPosition(
                   SetAgent(w, e, [agent EXCEPT !.phase = "RIDING", !.waitMs = 0]),
                   e, PositionOf(Cell(column, floor))),
                 carEntity, queued)
    IN boardAgents(boarded, carEntity, column, floor, boarding, i + 1)

\* mutant: the callers that do not fit keep their car and their call
loadAtFloorKeepsCalls(w, carEntity, column, floor) ==
  LET agent(e) == getComponent(w, e, "agent")
      car == getComponent(w, carEntity, "elevatorCar")
      waitingAgents ==
        SortByWait(w, {e \in query(w, {"position", "agent"}) :
                         /\ agent(e).phase = "WAIT_AT_SHAFT"
                         /\ agent(e).assignedCarId = carEntity
                         /\ agent(e).assignedShaftX = column
                         /\ agent(e).sourceFloorY = floor})
      room == Min2(remainingCapacity(car), Len(waitingAgents))
  IN IF ~has(w, carEntity, "elevatorCar") THEN w
     ELSE boardAgents(w, carEntity, column, floor, SubSeq(waitingAgents, 1, room), 1)

loadAtFloor(w, carEntity, column, floor) ==
  LET agent(e) == getComponent(w, e, "agent")
      car == getComponent(w, carEntity, "elevatorCar")
      waitingAgents ==
        SortByWait(w, {e \in query(w, {"position", "agent"}) :
                         /\ agent(e).phase = "WAIT_AT_SHAFT"
                         /\ agent(e).assignedCarId = carEntity
                         /\ agent(e).assignedShaftX = column
                         /\ agent(e).sourceFloorY = floor})
      room == Min2(remainingCapacity(car), Len(waitingAgents))
      boardingAgents == SubSeq(waitingAgents, 1, room)
      overflowAgents == SeqRange(SubSeq(waitingAgents, room + 1, Len(waitingAgents)))
      loaded == boardAgents(w, carEntity, column, floor, boardingAgents, 1)
  IN IF ~has(w, carEntity, "elevatorCar") THEN w
     ELSE [loaded EXCEPT !.components.agent =
             [e \in DOMAIN @ |->
                IF e \in overflowAgents
                THEN [@[e] EXCEPT !.assignedCarId = NULL, !.callRegistered = FALSE]
                ELSE @[e]]]

\* mutant: the car stops where the last step left it
arriveAtFloorUnsnapped(w, carEntity, car, position, targetFloor) ==
  LET unloaded == unloadAtFloor(SetCar(w, carEntity, car), carEntity, car.column, targetFloor)
  IN SetCar(unloaded, carEntity,
            [getComponent(unloaded, carEntity, "elevatorCar") EXCEPT
               !.state = "UNLOADING", !.phaseTimerMs = UNLOAD_DURATION_MS,
               !.direction = "NONE"])

\* the car reaches targetFloor: snap, unload, start the unloading phase
arriveAtFloor(w, carEntity, car, position, targetFloor) ==
  LET snapped == SetCar(SetPosition(w, carEntity, [position EXCEPT !.y = Tile(targetFloor)]),
                        carEntity, car)
      unloaded == unloadAtFloor(snapped, carEntity, car.column, targetFloor)
  IN SetCar(unloaded, carEntity,
            [getComponent(unloaded, carEntity, "elevatorCar") EXCEPT
               !.state = "UNLOADING", !.phaseTimerMs = UNLOAD_DURATION_MS,
               !.direction = "NONE"])

\* the MOVING branch of updateCars; car already holds the pruned queue
moveCar(w, carEntity, car, position, deltaMs) ==
  LET targetFloor == car.stopQueue[1]
      direction == IF Tile(targetFloor) < position.y THEN "UP" ELSE "DOWN"
      speedDelta == (car.speed * deltaMs) \div MsPerSecond
      y == IF direction = "UP" THEN position.y - speedDelta ELSE position.y + speedDelta
      reached == IF direction = "UP" THEN y <= Tile(targetFloor) ELSE y >= Tile(targetFloor)
      moving == [car EXCEPT !.direction = direction]
  IN IF car.stopQueue = <<>>
       THEN SetCar(w, carEntity, [car EXCEPT !.state = "IDLE", !.direction = "NONE"])
     ELSE IF Abs(position.y - Tile(targetFloor)) < 10
       THEN arriveAtFloor(w, carEntity, car, position, targetFloor)
     ELSE IF reached
       THEN arriveAtFloor(w, carEntity, moving, position, targetFloor)
     ELSE SetCar(SetPosition(w, carEntity, [position EXCEPT !.y = y]), carEntity, moving)

\* the queue after the LOADING phase at floor ends
finishStop(stopQueue, floor) ==
  IF stopQueue # <<>> /\ stopQueue[1] = floor THEN Tail(stopQueue)
  ELSE SelectSeq(stopQueue, LAMBDA stop : stop # floor)

\* the body of the loop of updateCars for one car
updateCar(w, carEntity, deltaMs) ==
  LET position == getComponent(w, carEntity, "position")
      old == getComponent(w, carEntity, "elevatorCar")
      servedFloors == ShaftFloors(w, old.column)
      car == [old EXCEPT !.stopQueue =
                dedupeStops(SelectSeq(@, LAMBDA stop : stop \in servedFloors))]
      timed == [car EXCEPT !.phaseTimerMs = @ - deltaMs]
      floor == Round(position.y)
      loaded == loadAtFloor(SetCar(w, carEntity, timed), carEntity, car.column, floor)
      rest == finishStop(timed.stopQueue, floor)
  IN IF servedFloors = {} THEN w
     ELSE CASE car.state = "IDLE" ->
                 SetCar(w, carEntity,
                        [car EXCEPT !.direction = "NONE",
                                    !.state = IF car.stopQueue # <<>> THEN "MOVING" ELSE "IDLE"])
            [] car.state = "MOVING" -> moveCar(w, carEntity, car, position, deltaMs)
            [] car.state = "UNLOADING" ->
                 IF timed.phaseTimerMs <= 0
                 THEN SetCar(loaded, carEntity,
                             [getComponent(loaded, carEntity, "elevatorCar") EXCEPT
                                !.state = "LOADING", !.phaseTimerMs = LOAD_DURATION_MS])
                 ELSE SetCar(w, carEntity, timed)
            [] OTHER ->
                 IF timed.phaseTimerMs <= 0
                 THEN SetCar(w, carEntity,
                             [timed EXCEPT !.stopQueue = rest,
                                           !.state = IF rest # <<>> THEN "MOVING" ELSE "IDLE",
                                           !.direction = "NONE"])
                 ELSE SetCar(w, carEntity, timed)

RECURSIVE updateCarsFrom(_, _, _, _)
updateCarsFrom(w, ids, i, deltaMs) ==
  IF i > Len(ids) THEN w
  ELSE updateCarsFrom(updateCar(w, ids[i], deltaMs), ids, i + 1, deltaMs)

updateCars(w, deltaMs) == updateCarsFrom(w, SortedSeq(Cars(w)), 1, deltaMs)

syncRiders(w) ==
  LET synced(agent) ==
        IF agent.assignedCarId = NULL
          THEN [agent EXCEPT !.phase = "WAIT_AT_SHAFT", !.callRegistered = FALSE]
        ELSE IF ~has(w, agent.assignedCarId, "position")
          THEN [agent EXCEPT !.assignedCarId = NULL, !.callRegistered = FALSE,
                             !.phase = "WAIT_AT_SHAFT"]
        ELSE agent
      riders == {e \in Agents(w) : getComponent(w, e, "agent").phase = "RIDING"}
      carried == {e \in riders : synced(getComponent(w, e, "agent")).phase = "RIDING"}
  IN [w EXCEPT
        !.components.agent = [e \in DOMAIN @ |-> IF e \in riders THEN synced(@[e]) ELSE @[e]],
        !.components.position =
          [e \in DOMAIN @ |->
             IF e \in carried
             THEN getComponent(w, getComponent(w, e, "agent").assignedCarId, "position")
             ELSE @[e]]]

ElevatorSystemUpdate(w, deltaMs) ==
  LET banks == buildBanks(SeqRange(ShaftColumnsInOrder(w)))
  IN syncRiders(updateCars(arrangeQueueLines(dispatchCalls(syncCars(w, banks), banks)),
                           deltaMs))

\* Game.update: the agents move, then the elevators run
GameUpdate(w, deltaMs) == ElevatorSystemUpdate(AgentSystemUpdate(w, deltaMs), deltaMs)

(***************************************************************************)
(* Actions.  Game passes its money as the funds of a commit and subtracts  *)
(* what the commit reports as spent.                                       *)
(***************************************************************************)
\* mutant: the funds are charged the whole cost of the tool whatever the
\* commit reports
CommitCharged(r, maxIds) ==
  /\ r.w.nextEntityId <= maxIds + 1
  /\ SetWorld(r.w)
  /\ money' = money - OFFICE_COST
  /\ UNCHANGED <<trips, clock>>

Commit(r, maxIds) ==
  /\ r.w.nextEntityId <= maxIds + 1
  /\ SetWorld(r.w)
  /\ money' = IF r.spent > 0 THEN money - r.spent ELSE money
  /\ UNCHANGED <<trips, clock>>

ApplyFloorDrag(start, end, maxIds) ==
  \E r \in {applyFloorDrag(World, start, end, money)} :
     /\ Commit(r, maxIds)
     /\ ret' = [NoRet EXCEPT !.op = "applyFloorDrag", !.changedMap = r.changedMap,
                              !.spent = r.spent, !.errorMessage = r.errorMessage]

ApplyToolAtHoveredCell(tool, cell, rnd, maxIds) ==
  \E r \in {applyToolAtHoveredCell(World, tool, cell, money, rnd)} :
     /\ Commit(r, maxIds)
     /\ ret' = [NoRet EXCEPT !.op = "applyToolAtHoveredCell",
                              !.changedMap = r.changedMap,
                              !.spent = r.spent, !.errorMessage = r.errorMessage]

CreateEntity(maxIds) ==
  /\ nextEntityId <= maxIds
  /\ SetWorld(createEntity(World))
  /\ ret' = [NoRet EXCEPT !.op = "createEntity", !.id = createdId(World)]
  /\ UNCHANGED <<money, trips, clock>>

DestroyEntity(entityId) ==
  /\ SetWorld(destroyEntity(World, entityId))
  /\ ret' = [NoRet EXCEPT !.op = "destroyEntity", !.id = entityId]
  /\ UNCHANGED <<money, trips, clock>>

AddComponent(entityId, key, component) ==
  /\ SetWorld(addComponent(World, entityId, key, component))
  /\ ret' = [NoRet EXCEPT !.op = "addComponent", !.id = entityId,
                           !.threw = addComponentThrows(World, entityId)]
  /\ UNCHANGED <<money, trips, clock>>

RemoveComponent(entityId, key) ==
  /\ SetWorld(removeComponent(World, entityId, key))
  /\ ret' = [NoRet EXCEPT !.op = "removeComponent", !.id = entityId]
  /\ UNCHANGED <<money, trips, clock>>

\* AgentSystem.issueTrip as Game's routines and command clicks call it
IssueTrip(agentId, targetFloor, despawnOnArrival, maxTrips) ==
  /\ trips < maxTrips
  /\ \E r \in {issueTrip(World, agentId, targetFloor, despawnOnArrival)} :
       /\ SetWorld(r.w)
       /\ ret' = [NoRet EXCEPT !.op = "issueTrip", !.id = agentId, !.ok = r.ok]
  /\ trips' = trips + 1
  /\ UNCHANGED <<money, clock>>

\* one frame of Game.update with the frame time deltaMs
Tick(deltaMs, maxIds, maxWaitMs) ==
  /\ \A e \in Agents(World) : getComponent(World, e, "agent").waitMs < maxWaitMs
  /\ \E w \in {GameUpdate(World, deltaMs)} :
       /\ w.nextEntityId <= maxIds + 1
       /\ SetWorld(w)
  /\ ret' = [NoRet EXCEPT !.op = "tick"]
  /\ UNCHANGED <<money, trips, clock>>

(***************************************************************************)
(* SpecECS: the entity store driven through its own interface.             *)
(***************************************************************************)
EcsIds == 1..(MaxEcsIds + 1)

EcsKeys == {"position", "floor"}

EcsValues(key) ==
  IF key = "position" THEN {PositionOf(Cell(0, GROUND_ROW)), PositionOf(Cell(1, GROUND_ROW))}
  ELSE {[zone |-> "LOBBY", occupied |-> TRUE, rent |-> 0]}

InitECS ==
  /\ nextEntityId = NewWorld.nextEntityId
  /\ entities = NewWorld.entities
  /\ components = NewWorld.components
  /\ money = 0
  /\ ret = NoRet
  /\ issued = {}
  /\ trips = 0
  /\ clock = NewClock

NextECS ==
  \/ CreateEntity(MaxEcsIds)
  \/ \E id \in EcsIds : DestroyEntity(id)
  \/ \E id \in EcsIds, key \in EcsKeys : \E c \in EcsValues(key) : AddComponent(id, key, c)
  \/ \E id \in EcsIds, key \in EcsKeys : RemoveComponent(id, key)

SpecECS == InitECS /\ [][NextECS]_vars

(***************************************************************************)
(* SpecBuild: the placement tools on an empty site.  Any multiple of the   *)
(* floor cost up to STARTING_FUNDS is a balance the game reaches (placing  *)
(* and deleting a ground tile costs 10 and leaves the site empty).         *)
(***************************************************************************)
STARTING_FUNDS == 100000

BuildFunds == {STARTING_FUNDS, 2 * FLOOR_COST}

BuildCells == {Cell(x, y) : x \in 0..MaxCol, y \in (GROUND_ROW - MaxUp)..GROUND_ROW}

BuildTools == {"floor", "elevator", "delete"}

InitBuild ==
  /\ nextEntityId = NewWorld.nextEntityId
  /\ entities = NewWorld.entities
  /\ components = NewWorld.components
  /\ money \in BuildFunds
  /\ ret = NoRet
  /\ issued = {}
  /\ trips = 0
  /\ clock = NewClock

NextBuild ==
  \/ \E start \in BuildCells, endX \in 0..MaxCol :
       ApplyFloorDrag(start, Cell(endX, start.y), MaxBuildIds)
  \/ \E tool \in BuildTools, cell \in BuildCells : ApplyToolAtHoveredCell(tool, cell, 0, MaxBuildIds)

SpecBuild == InitBuild /\ [][NextBuild]_vars

(***************************************************************************)
(* SpecSim: a two-storey tower with a bank of two shaft columns, built     *)
(* with the placement tools, and visitors in the lobby.  The player edits  *)
(* the cells SimCells where the placement preview shows the tool as valid  *)
(* (SpecBuild covers the rejected commits), trips are issued to the cells  *)
(* SimTargets, and frames run at the frame-time cap of the game loop.      *)
(***************************************************************************)
MAX_DELTA_MS == 100

SimFloors ==
  <<Cell(0, GROUND_ROW), Cell(3, GROUND_ROW), Cell(0, GROUND_ROW - 1), Cell(3, GROUND_ROW - 1),
    Cell(0, GROUND_ROW - 2)>>

SimShafts ==
  <<Cell(1, GROUND_ROW), Cell(1, GROUND_ROW - 1), Cell(2, GROUND_ROW), Cell(2, GROUND_ROW - 1)>>

RECURSIVE spawnShaftSegments(_, _, _)
spawnShaftSegments(w, cells, i) ==
  IF i > Len(cells) THEN w
  ELSE spawnShaftSegments(spawnShaftSegment(w, cells[i]), cells, i + 1)

SimSite ==
  spawnVisitor(
    spawnShaftSegments(spawnFloorSegments(NewWorld, SimFloors, 1), SimShafts, 1),
    Cell(0, GROUND_ROW))

SimSpent == Len(SimFloors) * FLOOR_COST + Len(SimShafts) * ELEVATOR_COST

SimCells == {Cell(1, GROUND_ROW - 1), Cell(0, GROUND_ROW)}

SimTools == {"delete", "elevator"}

SimTargets == {Cell(0, GROUND_ROW - 1), Cell(3, GROUND_ROW), Cell(0, GROUND_ROW - 2)}

InitSim ==
  /\ nextEntityId = SimSite.nextEntityId
  /\ entities = SimSite.entities
  /\ components = SimSite.components
  /\ money = STARTING_FUNDS - SimSpent
  /\ ret = NoRet
  /\ issued = SimSite.entities
  /\ trips = 0
  /\ clock = NewClock

NextSim ==
  \/ \E tool \in SimTools, cell \in SimCells :
       /\ isValidPlacement(World, tool, cell)
       /\ ApplyToolAtHoveredCell(tool, cell, 0, MaxSimIds)
  \/ \E a \in Agents(World), target \in SimTargets : IssueTrip(a, target, FALSE, MaxTrips)
  \/ Tick(MAX_DELTA_MS, MaxSimIds, MaxWaitMs)

SpecSim == InitSim /\ [][NextSim]_vars

(***************************************************************************)
(* SpecRush: one shaft column and a lobby full of visitors.  The trips are *)
(* issued in one burst between two frames, as Game.endOfficeDay issues     *)
(* them for every worker in one minute; the player deletes and rebuilds    *)
(* the upper shaft segment.                                                *)
(***************************************************************************)
RECURSIVE spawnVisitors(_, _, _)
spawnVisitors(w, spawnCell, n) ==
  IF n = 0 THEN w ELSE spawnVisitors(spawnVisitor(w, spawnCell), spawnCell, n - 1)

RushFloors == <<Cell(0, GROUND_ROW), Cell(0, GROUND_ROW - 1)>>

RushShafts == <<Cell(1, GROUND_ROW), Cell(1, GROUND_ROW - 1)>>

RushSite ==
  spawnVisitors(
    spawnShaftSegments(spawnFloorSegments(NewWorld, RushFloors, 1), RushShafts, 1),
    Cell(0, GROUND_ROW), RushAgents)

RushSpent == Len(RushFloors) * FLOOR_COST + Len(RushShafts) * ELEVATOR_COST

InitRush ==
  /\ nextEntityId = RushSite.nextEntityId
  /\ entities = RushSite.entities
  /\ components = RushSite.components
  /\ money = STARTING_FUNDS - RushSpent
  /\ ret = NoRet
  /\ issued = RushSite.entities
  /\ trips = 0
  /\ clock = NewClock

NextRush ==
  \/ \E tool \in SimTools :
       /\ isValidPlacement(World, tool, Cell(1, GROUND_ROW - 1))
       /\ ApplyToolAtHoveredCell(tool, Cell(1, GROUND_ROW - 1), 0, MaxRushIds)
  \/ \E a \in Agents(World) :
       /\ trips = 0 \/ ret.op = "issueTrip"
       /\ IssueTrip(a, Cell(0, GROUND_ROW - 1), FALSE, MaxRushTrips)
  \/ Tick(MAX_DELTA_MS, MaxRushIds, MaxRushWaitMs)

SpecRush == InitRush /\ [][NextRush]_vars

(***************************************************************************)
(* SpecBank: a bank of two adjacent shaft columns with floor tiles on the  *)
(* left side only, so that column 2 has no tile to wait on.  The visitors  *)
(* are sent upstairs in one burst and the player deletes shaft segments.   *)
(***************************************************************************)
BankFloors == <<Cell(0, GROUND_ROW), Cell(0, GROUND_ROW - 1)>>

BankShafts ==
  <<Cell(1, GROUND_ROW), Cell(1, GROUND_ROW - 1), Cell(2, GROUND_ROW), Cell(2, GROUND_ROW - 1)>>

BankSite ==
  spawnVisitors(
    spawnShaftSegments(spawnFloorSegments(NewWorld, BankFloors, 1), BankShafts, 1),
    Cell(0, GROUND_ROW), BankAgents)

BankSpent == Len(BankFloors) * FLOOR_COST + Len(BankShafts) * ELEVATOR_COST

InitBank ==
  /\ nextEntityId = BankSite.nextEntityId
  /\ entities = BankSite.entities
  /\ components = BankSite.components
  /\ money = STARTING_FUNDS - BankSpent
  /\ ret = NoRet
  /\ issued = BankSite.entities
  /\ trips = 0
  /\ clock = NewClock

NextBank ==
  \/ \E cell \in SeqRange(BankShafts) :
       /\ isValidPlacement(World, "delete", cell)
       /\ ApplyToolAtHoveredCell("delete", cell, 0, MaxBankIds)
  \/ \E a \in Agents(World) :
       /\ trips = 0 \/ ret.op = "issueTrip"
       /\ IssueTrip(a, Cell(0, GROUND_ROW - 1), FALSE, MaxBankTrips)
  \/ Tick(MAX_DELTA_MS, MaxBankIds, MaxBankWaitMs)

SpecBank == InitBank /\ [][NextBank]_vars

(***************************************************************************)
(* SpecQueue: one shaft column and more callers than a car holds.  Some    *)
(* visitors stand on the waiting tile and some one tile away, so that the  *)
(* callers of one load have waited for different times; the visitors that  *)
(* walk were spawned first and come first in every query.                  *)
(***************************************************************************)
QueueFloors == <<Cell(0, GROUND_ROW), Cell(1, GROUND_ROW), Cell(1, GROUND_ROW - 1)>>

QueueShafts == <<Cell(2, GROUND_ROW), Cell(2, GROUND_ROW - 1)>>

QueueSite ==
  spawnVisitors(
    spawnVisitors(
      spawnShaftSegments(spawnFloorSegments(NewWorld, QueueFloors, 1), QueueShafts, 1),
      Cell(0, GROUND_ROW), FarAgents),
    Cell(1, GROUND_ROW), NearAgents)

QueueSpent == Len(QueueFloors) * FLOOR_COST + Len(QueueShafts) * ELEVATOR_COST

InitQueue ==
  /\ nextEntityId = QueueSite.nextEntityId
  /\ entities = QueueSite.entities
  /\ components = QueueSite.components
  /\ money = STARTING_FUNDS - QueueSpent
  /\ ret = NoRet
  /\ issued = QueueSite.entities
  /\ trips = 0
  /\ clock = NewClock

NextQueue ==
  \/ \E a \in Agents(World) :
       /\ trips = 0 \/ ret.op = "issueTrip"
       /\ IssueTrip(a, Cell(1, GROUND_ROW - 1), FALSE, MaxQueueTrips)
  \/ Tick(MAX_DELTA_MS, MaxQueueIds, MaxQueueWaitMs)

SpecQueue == InitQueue /\ [][NextQueue]_vars

(***************************************************************************)
(* SpecTie: a bank of two columns through three floors, with floor tiles   *)
(* on both sides.  Two visitors stand left of the bank and one right of    *)
(* it; each may be sent once to the top floor of its own side.             *)
(***************************************************************************)
TieFloors ==
  <<Cell(0, GROUND_ROW), Cell(3, GROUND_ROW), Cell(0, GROUND_ROW - 1),
    Cell(3, GROUND_ROW - 1), Cell(0, GROUND_ROW - 2), Cell(3, GROUND_ROW - 2)>>

TieShafts ==
  <<Cell(1, GROUND_ROW), Cell(1, GROUND_ROW - 1), Cell(1, GROUND_ROW - 2),
    Cell(2, GROUND_ROW), Cell(2, GROUND_ROW - 1), Cell(2, GROUND_ROW - 2)>>

TieSite ==
  spawnVisitors(
    spawnVisitors(
      spawnShaftSegments(spawnFloorSegments(NewWorld, TieFloors, 1), TieShafts, 1),
      Cell(0, GROUND_ROW), LeftAgents),
    Cell(3, GROUND_ROW), 1)

TieSpent == Len(TieFloors) * FLOOR_COST + Len(TieShafts) * ELEVATOR_COST

InitTie ==
  /\ nextEntityId = TieSite.nextEntityId
  /\ entities = TieSite.entities
  /\ components = TieSite.components
  /\ money = STARTING_FUNDS - TieSpent
  /\ ret = NoRet
  /\ issued = TieSite.entities
  /\ trips = 0
  /\ clock = NewClock

NextTie ==
  \/ \E a \in Agents(World) :
       /\ getComponent(World, a, "agent").phase = "IDLE"
       /\ IssueTrip(a, Cell(Round(getComponent(World, a, "position").x), GROUND_ROW - 2),
                    FALSE, MaxTieTrips)
  \/ Tick(MAX_DELTA_MS, MaxTieIds, MaxTieWaitMs)

SpecTie == InitTie /\ [][NextTie]_vars

(***************************************************************************)
(* SpecStress: the site of SpecBank left alone by the player.  The trips   *)
(* are issued in one burst; the trip of an agent that has waited at the    *)
(* shaft for RetryAfterMs may be issued again, as a routine of Game does   *)
(* when its minute comes whatever the phase of the agent.                  *)
(***************************************************************************)
InitStress ==
  /\ nextEntityId = BankSite.nextEntityId
  /\ entities = BankSite.entities
  /\ components = BankSite.components
  /\ money = STARTING_FUNDS - BankSpent
  /\ ret = NoRet
  /\ issued = BankSite.entities
  /\ trips = 0
  /\ clock = NewClock

NextStress ==
  \/ \E a \in Agents(World) :
       /\ \/ trips = 0
          \/ ret.op = "issueTrip"
          \/ getComponent(World, a, "agent").waitMs >= RetryAfterMs
       /\ IssueTrip(a, Cell(0, GROUND_ROW - 1), FALSE, MaxStressTrips)
  \/ Tick(MAX_DELTA_MS, MaxBankIds, MaxStressWaitMs)

SpecStress == InitStress /\ [][NextStress]_vars

(***************************************************************************)
(* SpecShafts: the player places and deletes shaft segments on the ground  *)
(* row of an empty site, so that columns of shafts appear and vanish and   *)
(* banks merge and split, and frames run in between.                       *)
(***************************************************************************)
ShaftSiteCells == {Cell(x, GROUND_ROW) : x \in 0..MaxShaftCol}

InitShafts ==
  /\ nextEntityId = NewWorld.nextEntityId
  /\ entities = NewWorld.entities
  /\ components = NewWorld.components
  /\ money = STARTING_FUNDS
  /\ ret = NoRet
  /\ issued = {}
  /\ trips = 0
  /\ clock = NewClock

NextShafts ==
  \/ \E tool \in {"elevator", "delete"}, cell \in ShaftSiteCells :
       ApplyToolAtHoveredCell(tool, cell, 0, MaxShaftIds)
  \/ Tick(MAX_DELTA_MS, MaxShaftIds, 1)

SpecShafts == InitShafts /\ [][NextShafts]_vars

(***************************************************************************)

(* SpecRooms: the room tools and the DELETE tool on a site of two rows of  *)
(* floor tiles, the upper one a tile shorter, with funds that do or do not *)
(* pay for every room.  rnd is the draw of a condo's noise sensitivity.    *)
(***************************************************************************)
RoomFloors ==
  <<Cell(0, GROUND_ROW), Cell(1, GROUND_ROW), Cell(2, GROUND_ROW), Cell(3, GROUND_ROW),
    Cell(0, GROUND_ROW - 1), Cell(1, GROUND_ROW - 1), Cell(2, GROUND_ROW - 1)>>

RoomSite == spawnFloorSegments(NewWorld, RoomFloors, 1)

RoomFunds == {STARTING_FUNDS, 3 * FOOD_COURT_COST + 100}

RoomCells == {Cell(x, y) : x \in 0..MaxRoomCol, y \in (GROUND_ROW - 1)..GROUND_ROW}

RoomTools == {"office", "condo", "food_court", "delete"}

InitRooms ==
  /\ nextEntityId = RoomSite.nextEntityId
  /\ entities = RoomSite.entities
  /\ components = RoomSite.components
  /\ money \in RoomFunds
  /\ ret = NoRet
  /\ issued = RoomSite.entities
  /\ trips = 0
  /\ clock = NewClock

NextRooms ==
  \E tool \in RoomTools, cell \in RoomCells, rnd \in {0, 5} :
     ApplyToolAtHoveredCell(tool, cell, rnd, Len(RoomFloors))

SpecRooms == InitRooms /\ [][NextRooms]_vars

(***************************************************************************)
(* The game clock.  GameLoop.tick caps the frame time and adds it to its   *)
(* elapsed time; Game.update turns the elapsed time into game minutes and  *)
(* runs processMinute for every minute not processed yet, then the agent,  *)
(* elevator, zoning and floating-text systems.  A game value g is          *)
(* [w, money, processed]: the world, the funds of the state store and the  *)
(* minutes processMinute has been called with.                             *)
(***************************************************************************)
GAME_HOUR_REAL_MS == 2000
MINUTES_PER_DAY == 24 * 60
MORNING_MINUTE == 8 * 60
LUNCH_MINUTE == 12 * 60
EVENING_MINUTE == 17 * 60

\* Math.floor(elapsedMs * GAME_MINUTES_PER_REAL_MS), the factor being 60 / 2000
currentGameMinute(elapsedMs) == (elapsedMs * 60) \div GAME_HOUR_REAL_MS

toMinuteOfDay(totalMinute) ==
  ((totalMinute % MINUTES_PER_DAY) + MINUTES_PER_DAY) % MINUTES_PER_DAY

\* mutant: the popup is put at the origin of the grid
spawnFloatingTextAtOrigin(w, x, y, text) ==
  addComponent(addComponent(createEntity(w), createdId(w), "position", [x |-> 0, y |-> 0]),
               createdId(w), "floatingText",
               [text |-> text, color |-> "#4ade80", ageMs |-> 0, ttlMs |-> 1200,
                risePerSecond |-> 800])

\* the text is the template `+$${rent}`, kept as its two parts
spawnFloatingText(w, x, y, text) ==
  addComponent(addComponent(createEntity(w), createdId(w), "position", [x |-> x, y |-> y]),
               createdId(w), "floatingText",
               [text |-> text, color |-> "#4ade80", ageMs |-> 0, ttlMs |-> 1200,
                risePerSecond |-> 800])

\* mutant: only office tiles pay
RentPayersOfficesOnly(w) ==
  {e \in query(w, {"position", "floor"}) :
     getComponent(w, e, "floor").zone = "OFFICE" /\ getComponent(w, e, "floor").rent > 0}

\* the floors the loop of collectRentAtMidnight does not skip
RentPayers(w) ==
  {e \in query(w, {"position", "floor"}) :
     getComponent(w, e, "floor").occupied /\ getComponent(w, e, "floor").rent > 0}

\* the loop of collectRentAtMidnight over the floors left in ids
RECURSIVE collectRent(_, _)
collectRent(g, ids) ==
  IF ids = <<>> THEN g
  ELSE LET position == getComponent(g.w, Head(ids), "position")
           floor == getComponent(g.w, Head(ids), "floor")
       IN collectRent(
            [g EXCEPT !.w = spawnFloatingText(g.w, position.x, position.y - 150,
                                              <<"+$", floor.rent>>),
                      !.money = g.money + floor.rent],
            Tail(ids))

collectRentAtMidnight(g) == collectRent(g, SortedSeq(RentPayers(g.w)))

(***************************************************************************)
(* The routines of Game.processMinute.  The game value g also carries rnd, *)
(* what Math.random returns during the frame in thousandths, and           *)
(* nextAgentId, the number Game gives the next person it spawns.           *)
(***************************************************************************)
GRID_COLUMNS == 30
MORNING_WORKER_COUNT == 6
\* 0.45, in hundredths
RESIDENT_WORKER_SHARE == 45

\* null where a cell is expected, and where an ingress is
NoCell == [x |-> NULL, y |-> NULL]

NoIngress == [spawn |-> NoCell, entry |-> NoCell]

\* Math.floor(Math.random() * n)
randomBelow(rnd, n) == (rnd * n) \div MsPerSecond

\* the cells of the occupied floors of the zone, in the order of the query
getFloorCellsByZone(w, zone) ==
  LET ids == SortedSeq({e \in query(w, {"position", "floor"}) :
                          /\ getComponent(w, e, "floor").zone = zone
                          /\ getComponent(w, e, "floor").occupied})
  IN [i \in DOMAIN ids |->
        Cell(getComponent(w, ids[i], "position").x \div MsPerSecond,
             getComponent(w, ids[i], "position").y \div MsPerSecond)]

\* fromX in thousandths; the first cell at the least distance, null of none
findNearestCell(cells, fromX) ==
  IF cells = <<>> THEN NoCell
  ELSE LET distance(i) == Abs(Tile(cells[i].x) - fromX)
           best == CHOOSE i \in DOMAIN cells :
                     /\ \A j \in DOMAIN cells : distance(i) <= distance(j)
                     /\ \A j \in 1..(i - 1) : distance(j) > distance(i)
       IN cells[best]

\* a ?? b
orElse(a, b) == IF a # NoCell THEN a ELSE b

\* fromX in thousandths
getOffscreenExitTarget(fromX, rnd) ==
  LET center == Tile(GRID_COLUMNS) \div 2
      useLeftExit == fromX < center \/ (Abs(fromX - center) < 10 /\ rnd < 500)
  IN Cell(IF useLeftExit THEN -2 ELSE GRID_COLUMNS + 2, GROUND_ROW)

\* preferredX in tiles; [spawn, entry], or null where the ground row has no lobby
resolveIngress(w, preferredX) ==
  LET lobbies == SelectSeq(getFloorCellsByZone(w, "LOBBY"), LAMBDA c : c.y = GROUND_ROW)
      xs == {lobbies[i].x : i \in DOMAIN lobbies}
      leftEdge == Cell(SetMin(xs), GROUND_ROW)
      rightEdge == Cell(SetMax(xs), GROUND_ROW)
      entry == findNearestCell(lobbies, Tile(preferredX))
  IN IF lobbies = <<>> THEN NoIngress
     ELSE IF leftEdge.x = rightEdge.x THEN [spawn |-> leftEdge, entry |-> entry]
     ELSE [spawn |-> IF 2 * preferredX >= leftEdge.x + rightEdge.x THEN leftEdge
                     ELSE rightEdge,
           entry |-> entry]

getAgentsByArchetype(w, archetype) ==
  SortedSeq({e \in query(w, {"agent"}) : getComponent(w, e, "agent").archetype = archetype})

pickRandomCell(cells, rnd) ==
  IF cells = <<>> THEN NoCell ELSE cells[randomBelow(rnd, Len(cells)) + 1]

\* the weight of a cell of pickExplorationTarget over its distance factor, in
\* ten-thousandths: food courts 4.2, offices 2.4, condos 1.2, lobbies 1
explorationWeight(entry, fromX) ==
  (entry.weight * 1000 * 4000) \div (4000 + Abs(Tile(entry.cell.x) - fromX))

RECURSIVE sumWeights(_, _, _)
sumWeights(weighted, fromX, i) ==
  IF i > Len(weighted) THEN 0
  ELSE explorationWeight(weighted[i], fromX) + sumWeights(weighted, fromX, i + 1)

\* the loop that takes the weights off the roll, the roll in ten-millionths
RECURSIVE rollTarget(_, _, _, _)
rollTarget(weighted, fromX, roll, i) ==
  IF i > Len(weighted) THEN weighted[Len(weighted)].cell
  ELSE IF roll - MsPerSecond * explorationWeight(weighted[i], fromX) <= 0
    THEN weighted[i].cell
  ELSE rollTarget(weighted, fromX,
                  roll - MsPerSecond * explorationWeight(weighted[i], fromX), i + 1)

\* fromX in thousandths
pickExplorationTarget(w, fromX, rnd) ==
  LET entries(zone, weight) ==
        [i \in DOMAIN getFloorCellsByZone(w, zone) |->
           [cell |-> getFloorCellsByZone(w, zone)[i], weight |-> weight]]
      weighted == entries("FOOD_COURT", 42) \o entries("OFFICE", 24)
                  \o entries("CONDO", 12) \o entries("LOBBY", 10)
  IN IF weighted = <<>> THEN NoCell
     ELSE rollTarget(weighted, fromX, rnd * sumWeights(weighted, fromX, 1), 1)

\* x and y in tiles; NULL where no floor is at the cell
getZoneAt(w, x, y) ==
  IF getEntityByTypeAt(w, Cell(x, y), "floor") = NULL THEN NULL
  ELSE getComponent(w, getEntityByTypeAt(w, Cell(x, y), "floor"), "floor").zone

\* x and y in thousandths
addShopRevenue(g, amount, x, y) ==
  IF amount <= 0 THEN g
  ELSE [g EXCEPT !.money = @ + amount,
                 !.w = spawnFloatingText(g.w, x, y - 50, <<"+$", amount>>)]

\* the agent component of a person: what createPersonAgent is given
NewPerson(archetype, routine, speed, spawnCell, nextActionMinute, leaveByMinute, home, work) ==
  [archetype |-> archetype, routine |-> routine, mood |-> "neutral", speed |-> speed,
   phase |-> "IDLE", stress |-> 0, waitMs |-> 0,
   nextActionMinute |-> nextActionMinute, leaveByMinute |-> leaveByMinute,
   hasLunchedToday |-> FALSE,
   sourceFloorY |-> spawnCell.y, targetFloorY |-> spawnCell.y,
   targetX |-> spawnCell.x, targetY |-> spawnCell.y,
   homeX |-> home.x, homeY |-> home.y, workX |-> work.x, workY |-> work.y,
   desiredDirection |-> "NONE", assignedShaftX |-> NULL, waitX |-> NULL,
   assignedCarId |-> NULL, callRegistered |-> FALSE, despawnOnArrival |-> FALSE]

\* the entity of a person at spawnCell, and Game.nextAgentId += 1
spawnPerson(g, spawnCell, color, agent) ==
  [g EXCEPT !.w = addComponent(
                    addComponent(
                      addComponent(createEntity(g.w), createdId(g.w), "position",
                                   PositionOf(spawnCell)),
                      createdId(g.w), "renderable", [color |-> color, shape |-> "square"]),
                    createdId(g.w), "agent", agent),
            !.nextAgentId = @ + 1]

\* Game.spawnVisitor(spawnX, totalMinute, autoEnter) of the minute scheduler
spawnVisitorAt(g, spawnX, totalMinute, autoEnter) ==
  LET ingress == resolveIngress(g.w, spawnX)
      spawnCell == IF ingress = NoIngress THEN Cell(spawnX, GROUND_ROW) ELSE ingress.spawn
      entryCell == IF ingress = NoIngress THEN Cell(spawnX, GROUND_ROW) ELSE ingress.entry
      visitor == createdId(g.w)
      g1 == spawnPerson(g, spawnCell, "#ef4444",
              NewPerson("VISITOR", "VISITING", VISITOR_SPEED, spawnCell,
                        totalMinute + 10 + randomBelow(g.rnd, 20),
                        totalMinute + 60 + randomBelow(g.rnd, 180), NoCell, NoCell))
      entered == issueTrip(g1.w, visitor, entryCell, FALSE)
  IN IF autoEnter /\ entryCell # spawnCell
       THEN IF entered.ok
              THEN [g1 EXCEPT !.w = [entered.w EXCEPT
                      !.components.agent[visitor].routine = "VISITING",
                      !.components.agent[visitor].nextActionMinute =
                         totalMinute + 20 + randomBelow(g.rnd, 25)]]
            ELSE [g1 EXCEPT !.w = entered.w]
     ELSE g1

spawnResident(g, home, totalMinute) ==
  LET ingress == resolveIngress(g.w, home.x)
      spawnCell == IF ingress = NoIngress THEN home ELSE ingress.spawn
      resident == createdId(g.w)
      g1 == spawnPerson(g, spawnCell, "#22c55e",
              NewPerson("RESIDENT", "COMMUTING_HOME", 3000, spawnCell,
                        totalMinute + 15 + randomBelow(g.rnd, 35), NULL, home, NoCell))
      entered == issueTrip(g1.w, resident, home, FALSE)
  IN IF entered.ok THEN [g1 EXCEPT !.w = entered.w]
     ELSE [g1 EXCEPT !.w = [entered.w EXCEPT
                              !.components.agent[resident].routine = "WANDERING"]]

spawnOfficeWorker(g, homeX, officeDesk, totalMinute) ==
  LET ingress == resolveIngress(g.w, homeX)
      spawnCell == IF ingress = NoIngress THEN Cell(homeX, GROUND_ROW) ELSE ingress.spawn
  IN spawnPerson(g, spawnCell, "#ef4444",
       NewPerson("OFFICE_WORKER", "COMMUTING_TO_WORK", 3200, spawnCell,
                 totalMinute + 10 + randomBelow(g.rnd, 12), NULL, NoCell, officeDesk))

\* the visitors' half of spawnAutonomousTraffic; the score in hundredths
spawnVisitorTraffic(g, totalMinute, minuteOfDay, lobbies, attractionScore) ==
  LET visitors == Len(getAgentsByArchetype(g.w, "VISITOR"))
      visitorCap == Max2(4, Min2(24, (20000 + attractionScore * 32) \div 10000))
      visitorSpawnInterval == Max2(6, 22 - Min2(14, attractionScore \div 250))
  IN IF /\ minuteOfDay >= 6 * 60
        /\ minuteOfDay < 22 * 60
        /\ visitors < visitorCap
        /\ totalMinute % visitorSpawnInterval = 0
        /\ g.rnd * 10 < Min2(9000, 1600 + attractionScore)
     THEN spawnVisitorAt(g, lobbies[randomBelow(g.rnd, Len(lobbies)) + 1].x, totalMinute, TRUE)
     ELSE g

\* the residents' half of spawnAutonomousTraffic
spawnResidentTraffic(g, totalMinute, condos) ==
  LET residents == getAgentsByArchetype(g.w, "RESIDENT")
      residentTarget == Min2(Len(condos), Max2(1, (Len(condos) * 78) \div 100))
      occupiedHomes ==
        {Cell(getComponent(g.w, residents[i], "agent").homeX,
              getComponent(g.w, residents[i], "agent").homeY) : i \in DOMAIN residents}
      home == pickRandomCell(SelectSeq(condos, LAMBDA c : c \notin occupiedHomes), g.rnd)
  IN IF /\ condos # <<>>
        /\ Len(residents) < residentTarget
        /\ totalMinute % 60 = 0
        /\ g.rnd < 650
        /\ home # NoCell
     THEN spawnResident(g, home, totalMinute)
     ELSE g

spawnAutonomousTraffic(g, totalMinute, minuteOfDay) ==
  LET offices == getFloorCellsByZone(g.w, "OFFICE")
      condos == getFloorCellsByZone(g.w, "CONDO")
      foodCourts == getFloorCellsByZone(g.w, "FOOD_COURT")
      lobbies == getFloorCellsByZone(g.w, "LOBBY")
      attractionScore ==
        Len(offices) * 130 + Len(condos) * 110 + Len(foodCourts) * 210 + Len(lobbies) * 25
  IN IF lobbies = <<>> THEN g
     ELSE spawnResidentTraffic(
            spawnVisitorTraffic(g, totalMinute, minuteOfDay, lobbies, attractionScore),
            totalMinute, condos)

\* `if (issueTrip(e, target, despawn)) agent.routine = routine`
goTo(g, e, target, despawnOnArrival, routine) ==
  LET trip == issueTrip(g.w, e, target, despawnOnArrival)
  IN IF trip.ok
     THEN [g EXCEPT !.w = [trip.w EXCEPT !.components.agent[e].routine = routine]]
     ELSE [g EXCEPT !.w = trip.w]

SetRoutine(g, e, routine) == [g EXCEPT !.w.components.agent[e].routine = routine]

\* where lunch is taken from fromX, null of nowhere
lunchTargetFrom(foodCourts, lobbies, fromX) ==
  orElse(findNearestCell(foodCourts, fromX), findNearestCell(lobbies, fromX))

\* the trip to lunch and, where it was issued, the fields of the lunch
\* break: [g, ok]
goToLunch(g, e, lunchTarget, totalMinute) ==
  LET trip == issueTrip(g.w, e, lunchTarget, FALSE)
  IN IF lunchTarget = NoCell THEN [g |-> g, ok |-> FALSE]
     ELSE IF trip.ok
       THEN [g |-> [g EXCEPT !.w = [trip.w EXCEPT
                      !.components.agent[e].routine = "LUNCH_BREAK",
                      !.components.agent[e].hasLunchedToday = TRUE,
                      !.components.agent[e].nextActionMinute = totalMinute + 30]],
             ok |-> TRUE]
     ELSE [g |-> [g EXCEPT !.w = trip.w], ok |-> FALSE]

\* the VISITOR branch of updateAutonomousRoutines
visitorRoutine(g, e, totalMinute) ==
  LET position == getComponent(g.w, e, "position")
      agent == getComponent(g.w, e, "agent")
      target == pickExplorationTarget(g.w, position.x, g.rnd)
      moving == issueTrip(g.w, e, target, FALSE)
  IN IF agent.leaveByMinute # NULL /\ totalMinute >= agent.leaveByMinute
       THEN goTo(g, e, getOffscreenExitTarget(position.x, g.rnd), TRUE, "LEAVING")
     ELSE IF totalMinute < agent.nextActionMinute THEN g
     ELSE IF target = NoCell THEN g
     ELSE IF moving.ok
       THEN [g EXCEPT !.w = [moving.w EXCEPT
               !.components.agent[e].routine =
                  IF target.y = GROUND_ROW THEN "VISITING" ELSE "SHOPPING",
               !.components.agent[e].nextActionMinute =
                  totalMinute + 10 + randomBelow(g.rnd, 30)]]
     ELSE [g EXCEPT !.w = moving.w]

\* what both working archetypes do from the return from lunch on
backToWork(g, e) ==
  LET position == getComponent(g.w, e, "position")
      agent == getComponent(g.w, e, "agent")
  IN IF Round(position.x) # agent.workX \/ Round(position.y) # agent.workY
     THEN goTo(g, e, Cell(agent.workX, agent.workY), FALSE, "COMMUTING_TO_WORK")
     ELSE SetRoutine(g, e, "WORKING")

\* the RESIDENT branch of updateAutonomousRoutines
residentRoutine(g, e, totalMinute, minuteOfDay, foodCourts, offices, lobbies) ==
  LET position == getComponent(g.w, e, "position")
      agent == getComponent(g.w, e, "agent")
      isNight == minuteOfDay >= 21 * 60 \/ minuteOfDay < 6 * 60
      lunch == goToLunch(g, e, lunchTargetFrom(foodCourts, lobbies, position.x), totalMinute)
      tried == minuteOfDay >= LUNCH_MINUTE /\ ~agent.hasLunchedToday
      g1 == IF tried THEN lunch.g ELSE g
      wanderTarget ==
        orElse(findNearestCell(foodCourts, position.x),
               orElse(findNearestCell(offices, position.x),
                      findNearestCell(lobbies, position.x)))
      wander == issueTrip(g.w, e, wanderTarget, FALSE)
  IN IF isNight /\ agent.homeX # NULL /\ agent.homeY # NULL
       THEN IF Round(position.x) # agent.homeX \/ Round(position.y) # agent.homeY
            THEN goTo(g, e, Cell(agent.homeX, agent.homeY), FALSE, "COMMUTING_HOME")
            ELSE SetRoutine(g, e, "HOME")
     ELSE IF /\ agent.workX # NULL
             /\ agent.workY # NULL
             /\ minuteOfDay >= MORNING_MINUTE
             /\ minuteOfDay < EVENING_MINUTE
       THEN IF agent.hasLunchedToday /\ minuteOfDay < LUNCH_MINUTE + 90 THEN g
            ELSE IF tried /\ lunch.ok THEN lunch.g
            ELSE IF /\ getComponent(g1.w, e, "agent").routine = "LUNCH_BREAK"
                    /\ totalMinute >= getComponent(g1.w, e, "agent").nextActionMinute
              THEN goTo(g1, e, Cell(agent.workX, agent.workY), FALSE, "COMMUTING_TO_WORK")
            ELSE backToWork(g1, e)
     ELSE IF totalMinute >= agent.nextActionMinute /\ wanderTarget # NoCell
       THEN IF wander.ok
            THEN [g EXCEPT !.w = [wander.w EXCEPT
                    !.components.agent[e].routine = "WANDERING",
                    !.components.agent[e].nextActionMinute =
                       totalMinute + 20 + randomBelow(g.rnd, 25)]]
            ELSE [g EXCEPT !.w = wander.w]
     ELSE g

\* the OFFICE_WORKER branch of updateAutonomousRoutines
officeWorkerRoutine(g, e, totalMinute, minuteOfDay, foodCourts, lobbies) ==
  LET position == getComponent(g.w, e, "position")
      agent == getComponent(g.w, e, "agent")
      lunch == goToLunch(g, e, lunchTargetFrom(foodCourts, lobbies, position.x), totalMinute)
      tried == minuteOfDay >= LUNCH_MINUTE /\ ~agent.hasLunchedToday
      g1 == IF tried THEN lunch.g ELSE g
  IN IF minuteOfDay >= EVENING_MINUTE \/ minuteOfDay < MORNING_MINUTE
       THEN goTo(g, e, getOffscreenExitTarget(position.x, g.rnd), TRUE, "LEAVING")
     ELSE IF tried /\ lunch.ok THEN lunch.g
     ELSE IF /\ getComponent(g1.w, e, "agent").routine = "LUNCH_BREAK"
             /\ totalMinute >= getComponent(g1.w, e, "agent").nextActionMinute
             /\ agent.workX # NULL
             /\ agent.workY # NULL
       THEN goTo(g1, e, Cell(agent.workX, agent.workY), FALSE, "COMMUTING_TO_WORK")
     ELSE IF agent.workX # NULL /\ agent.workY # NULL THEN backToWork(g1, e)
     ELSE g1

\* the body of the loop of updateAutonomousRoutines for one agent
updateRoutine(g, e, totalMinute, minuteOfDay, foodCourts, offices, lobbies) ==
  LET position == getComponent(g.w, e, "position")
      agent == getComponent(g.w, e, "agent")
      standingZone == getZoneAt(g.w, Round(position.x), Round(position.y))
      earned ==
        IF standingZone = "FOOD_COURT" /\ totalMinute >= agent.nextActionMinute
        THEN [addShopRevenue(g, 8 + randomBelow(g.rnd, 28), position.x, position.y)
                EXCEPT !.w.components.agent[e].nextActionMinute =
                          totalMinute + 10 + randomBelow(g.rnd, 20)]
        ELSE g
  IN IF agent.phase # "AT_TARGET" /\ agent.phase # "IDLE" THEN g
     ELSE IF agent.archetype = "VISITOR" THEN visitorRoutine(earned, e, totalMinute)
     ELSE IF agent.archetype = "RESIDENT"
       THEN residentRoutine(earned, e, totalMinute, minuteOfDay, foodCourts, offices, lobbies)
     ELSE IF agent.archetype = "OFFICE_WORKER"
       THEN officeWorkerRoutine(earned, e, totalMinute, minuteOfDay, foodCourts, lobbies)
     ELSE earned

RECURSIVE updateRoutines(_, _, _, _, _, _, _)
updateRoutines(g, ids, totalMinute, minuteOfDay, foodCourts, offices, lobbies) ==
  IF ids = <<>> THEN g
  ELSE updateRoutines(
         updateRoutine(g, Head(ids), totalMinute, minuteOfDay, foodCourts, offices, lobbies),
         Tail(ids), totalMinute, minuteOfDay, foodCourts, offices, lobbies)

updateAutonomousRoutines(g, totalMinute, minuteOfDay) ==
  updateRoutines(g, SortedSeq(query(g.w, {"position", "agent"})), totalMinute, minuteOfDay,
                 getFloorCellsByZone(g.w, "FOOD_COURT"), getFloorCellsByZone(g.w, "OFFICE"),
                 getFloorCellsByZone(g.w, "LOBBY"))

\* the residents' loop of startOfficeDay: [g, offices, assigned], offices
\* being what is left of shuffledOffices
RECURSIVE assignResidents(_, _, _, _, _)
assignResidents(g, residents, offices, assigned, budget) ==
  IF residents = <<>> \/ assigned >= budget \/ offices = <<>>
  THEN [g |-> g, offices |-> offices]
  ELSE LET residentId == Head(residents)
           office == offices[Len(offices)]
           hired == [g EXCEPT !.w.components.agent[residentId].workX = office.x,
                              !.w.components.agent[residentId].workY = office.y,
                              !.w.components.agent[residentId].hasLunchedToday = FALSE]
           trip == issueTrip(hired.w, residentId, office, FALSE)
       IN IF ~has(g.w, residentId, "position")
            THEN assignResidents(g, Tail(residents), offices, assigned, budget)
          ELSE assignResidents(goTo(hired, residentId, office, FALSE, "COMMUTING_TO_WORK"),
                               Tail(residents), SubSeq(offices, 1, Len(offices) - 1),
                               IF trip.ok THEN assigned + 1 ELSE assigned, budget)

\* the loop of startOfficeDay that spawns the workers from outside
RECURSIVE spawnExternalWorkers(_, _, _, _, _, _)
spawnExternalWorkers(g, offices, lobbies, index, targetExternalWorkers, totalMinute) ==
  IF index >= targetExternalWorkers \/ offices = <<>> THEN g
  ELSE LET spawnLobby == lobbies[randomBelow(g.rnd, Len(lobbies)) + 1]
           office == offices[Len(offices)]
           worker == createdId(g.w)
           spawned == spawnOfficeWorker(g, spawnLobby.x, office, totalMinute)
       IN spawnExternalWorkers(
            [spawned EXCEPT !.w = issueTrip(spawned.w, worker, office, FALSE).w],
            SubSeq(offices, 1, Len(offices) - 1), lobbies, index + 1,
            targetExternalWorkers, totalMinute)

Reverse(s) == [i \in DOMAIN s |-> s[Len(s) + 1 - i]]

\* the order `sort(() => Math.random() - 0.5)` leaves is the engine's; it is
\* taken as the order of the query where the draw is below 0.5 and as its
\* reverse otherwise
startOfficeDay(g, totalMinute) ==
  LET offices == getFloorCellsByZone(g.w, "OFFICE")
      lobbies == getFloorCellsByZone(g.w, "LOBBY")
      residentWorkerBudget ==
        Min2(Len(offices), (Len(offices) * RESIDENT_WORKER_SHARE) \div 100)
      shuffledOffices == IF g.rnd < 500 THEN offices ELSE Reverse(offices)
      assigned == assignResidents(g, getAgentsByArchetype(g.w, "RESIDENT"), shuffledOffices,
                                  0, residentWorkerBudget)
      targetExternalWorkers ==
        Min2(Len(offices), MORNING_WORKER_COUNT + (Len(offices) * 3) \div 10)
  IN IF offices = <<>> \/ lobbies = <<>> THEN g
     ELSE spawnExternalWorkers(assigned.g, assigned.offices, lobbies, 0,
                               targetExternalWorkers, totalMinute)

\* the body of the loop of startLunchBreak for one agent
startLunch(g, workerEntity, foodCourts, lobbies, totalMinute) ==
  LET agent == getComponent(g.w, workerEntity, "agent")
      position == getComponent(g.w, workerEntity, "position")
      isWorkingResident ==
        /\ agent.archetype = "RESIDENT"
        /\ agent.workX # NULL
        /\ agent.workY # NULL
        /\ agent.routine = "WORKING"
      isOfficeWorker == agent.archetype = "OFFICE_WORKER" /\ agent.routine = "WORKING"
  IN IF (~isWorkingResident /\ ~isOfficeWorker) \/ agent.hasLunchedToday THEN g
     ELSE goToLunch(g, workerEntity, lunchTargetFrom(foodCourts, lobbies, position.x),
                    totalMinute).g

RECURSIVE startLunches(_, _, _, _, _)
startLunches(g, ids, foodCourts, lobbies, totalMinute) ==
  IF ids = <<>> THEN g
  ELSE startLunches(startLunch(g, Head(ids), foodCourts, lobbies, totalMinute), Tail(ids),
                    foodCourts, lobbies, totalMinute)

startLunchBreak(g, totalMinute) ==
  startLunches(g, SortedSeq(query(g.w, {"agent", "position"})),
               getFloorCellsByZone(g.w, "FOOD_COURT"), getFloorCellsByZone(g.w, "LOBBY"),
               totalMinute)

\* mutant: the day's people are put at rest instead of being sent on a trip
endDayAtRest(g, workerEntity) ==
  [g EXCEPT !.w.components.agent[workerEntity].phase = "IDLE",
            !.w.components.agent[workerEntity].routine = "LEAVING"]

\* the body of the loop of endOfficeDay for one agent
endDay(g, workerEntity) ==
  LET agent == getComponent(g.w, workerEntity, "agent")
      position == getComponent(g.w, workerEntity, "position")
  IN IF agent.archetype = "RESIDENT" /\ agent.homeX # NULL /\ agent.homeY # NULL
       THEN goTo(g, workerEntity, Cell(agent.homeX, agent.homeY), FALSE, "COMMUTING_HOME")
     ELSE IF agent.archetype # "OFFICE_WORKER" THEN g
     ELSE goTo(g, workerEntity, getOffscreenExitTarget(position.x, g.rnd), TRUE, "LEAVING")

RECURSIVE endDays(_, _)
endDays(g, ids) ==
  IF ids = <<>> THEN g ELSE endDays(endDay(g, Head(ids)), Tail(ids))

endOfficeDay(g) == endDays(g, SortedSeq(query(g.w, {"agent", "position"})))

resetDailyFlags(g) ==
  [g EXCEPT !.w.components.agent =
     [e \in DOMAIN @ |-> IF e \in g.w.entities THEN [@[e] EXCEPT !.hasLunchedToday = FALSE]
                         ELSE @[e]]]

\* spawnAutonomousTraffic and startOfficeDay return at once where no tile is
\* an occupied lobby; updateAutonomousRoutines, startLunchBreak, endOfficeDay
\* and resetDailyFlags loop over the agents.  On a site with neither what a
\* minute does is the midnight branch.
\* what processMinute does at the minute of the day once the routines of
\* every minute have left g
processMinuteOfDay(g, totalMinute, minuteOfDay) ==
  IF minuteOfDay = MORNING_MINUTE THEN startOfficeDay(g, totalMinute)
  ELSE IF minuteOfDay = LUNCH_MINUTE THEN startLunchBreak(g, totalMinute)
  ELSE IF minuteOfDay = EVENING_MINUTE THEN endOfficeDay(g)
  ELSE IF minuteOfDay = 0 THEN collectRentAtMidnight(resetDailyFlags(g))
  ELSE g

processMinute(g, totalMinute) ==
  processMinuteOfDay(
    updateAutonomousRoutines(
      spawnAutonomousTraffic([g EXCEPT !.processed = Append(g.processed, totalMinute)],
                             totalMinute, toMinuteOfDay(totalMinute)),
      totalMinute, toMinuteOfDay(totalMinute)),
    totalMinute, toMinuteOfDay(totalMinute))

\* mutant: only the current minute is processed, the backlog is dropped
processMinutesCurrentOnly(g, minute, current) ==
  IF minute > current THEN g ELSE processMinute(g, current)

\* the loop of advanceClock from minute to current
RECURSIVE processMinutes(_, _, _)
processMinutes(g, minute, current) ==
  IF minute > current THEN g
  ELSE processMinutes(processMinute(g, minute), minute + 1, current)

\* [g, lastProcessedGameMinute] after advanceClock(elapsedMs)
advanceClock(g, lastProcessedGameMinute, elapsedMs) ==
  [g |-> processMinutes(g, lastProcessedGameMinute + 1, currentGameMinute(elapsedMs)),
   lastProcessedGameMinute |-> currentGameMinute(elapsedMs)]

\* the sum of f over the ids in S
RECURSIVE Total(_, _)
Total(f, S) ==
  IF S = {} THEN 0 ELSE f[SetMin(S)] + Total(f, S \ {SetMin(S)})

\* one condo of ZoningSystem.evaluateCondos; offices are the ids collected
\* by its first loop
evaluateCondo(w, offices, condoEntity, checkMinutes) ==
  LET position == getComponent(w, condoEntity, "position")
      floor == getComponent(w, condoEntity, "floor")
      condo == getComponent(w, condoEntity, "condo")
      heard == {o \in offices :
                  Abs(position.x - getComponent(w, o, "position").x)
                  + Abs(position.y - getComponent(w, o, "position").y)
                  <= Tile(getComponent(w, o, "influence").noiseRadius)}
      noiseTotal ==
        Total([o \in offices |-> getComponent(w, o, "influence").noiseIntensity], heard)
  IN IF floor.zone # "CONDO" \/ ~condo.occupied THEN w
     ELSE IF noiseTotal > condo.noiseSensitivity
       THEN IF condo.warningMinutes + checkMinutes > 24 * 60
              THEN [w EXCEPT !.components.condo[condoEntity] =
                               [condo EXCEPT !.warningActive = FALSE,
                                             !.warningMinutes = 0,
                                             !.occupied = FALSE],
                             !.components.floor[condoEntity] =
                               [floor EXCEPT !.occupied = FALSE, !.rent = 0]]
            ELSE [w EXCEPT !.components.condo[condoEntity] =
                             [condo EXCEPT !.warningActive = TRUE,
                                           !.warningMinutes = @ + checkMinutes]]
     ELSE [w EXCEPT !.components.condo[condoEntity] =
                      [condo EXCEPT !.warningActive = FALSE, !.warningMinutes = 0]]

RECURSIVE evaluateCondosFrom(_, _, _, _)
evaluateCondosFrom(w, offices, ids, checkMinutes) ==
  IF ids = <<>> THEN w
  ELSE evaluateCondosFrom(evaluateCondo(w, offices, Head(ids), checkMinutes),
                          offices, Tail(ids), checkMinutes)

evaluateCondos(w, checkMinutes) ==
  LET offices == {e \in query(w, {"position", "floor", "influence"}) :
                    /\ getComponent(w, e, "floor").zone = "OFFICE"
                    /\ getComponent(w, e, "floor").occupied}
  IN evaluateCondosFrom(w, offices, SortedSeq(query(w, {"position", "floor", "condo"})),
                        checkMinutes)

\* ZoningSystem.update once deltaMs is added: [w, elapsedMs]; the check
\* interval is 10000 ms and spans 10000 * 60 / 2000 game minutes
RECURSIVE ZoningSystemUpdate(_, _)
ZoningSystemUpdate(w, elapsedMs) ==
  IF elapsedMs >= 10000
  THEN ZoningSystemUpdate(evaluateCondos(w, (10000 * 60) \div GAME_HOUR_REAL_MS),
                          elapsedMs - 10000)
  ELSE [w |-> w, elapsedMs |-> elapsedMs]

\* one text of FloatingTextSystem.update
updateFloatingText(w, entityId, deltaMs) ==
  LET position == getComponent(w, entityId, "position")
      floatingText == getComponent(w, entityId, "floatingText")
      w1 == [w EXCEPT !.components.floatingText[entityId].ageMs = @ + deltaMs,
                      !.components.position[entityId].y =
                         @ - (floatingText.risePerSecond * deltaMs) \div MsPerSecond]
  IN IF floatingText.ageMs + deltaMs >= floatingText.ttlMs
     THEN destroyEntity(w1, entityId)
     ELSE w1

RECURSIVE updateFloatingTexts(_, _, _)
updateFloatingTexts(w, ids, deltaMs) ==
  IF ids = <<>> THEN w
  ELSE updateFloatingTexts(updateFloatingText(w, Head(ids), deltaMs), Tail(ids), deltaMs)

FloatingTextSystemUpdate(w, deltaMs) ==
  updateFloatingTexts(w, SortedSeq(query(w, {"position", "floatingText"})), deltaMs)

\* the game value of the current state where Math.random returns rnd
GameDrawn(rnd) ==
  [w |-> World, money |-> money, processed |-> clock.processed, rnd |-> rnd,
   nextAgentId |-> clock.nextAgentId]

\* GameLoop.tick with the raw frame time rawDeltaMs, and the Game.update it
\* calls, where Math.random returns rnd; at most maxAgents people are spawned
FrameDrawn(rawDeltaMs, rnd, maxElapsedMs, maxAgents) ==
  LET deltaMs == Min2(rawDeltaMs, MAX_DELTA_MS)
      elapsedMs == clock.elapsedMs + deltaMs
  IN /\ elapsedMs <= maxElapsedMs
     /\ \E advanced \in {advanceClock(GameDrawn(rnd), clock.lastProcessedGameMinute,
                                       elapsedMs)} :
          /\ advanced.g.nextAgentId <= maxAgents + 1
          /\ \E zoned \in {ZoningSystemUpdate(GameUpdate(advanced.g.w, deltaMs),
                                               clock.zoningElapsedMs + deltaMs)} :
               /\ SetWorld(FloatingTextSystemUpdate(zoned.w, deltaMs))
               /\ clock' = [elapsedMs |-> elapsedMs,
                            lastProcessedGameMinute |-> advanced.lastProcessedGameMinute,
                            zoningElapsedMs |-> zoned.elapsedMs,
                            processed |-> advanced.g.processed,
                            crossed |-> Len(advanced.g.processed) - Len(clock.processed),
                            nextAgentId |-> advanced.g.nextAgentId]
          /\ money' = advanced.g.money
     /\ ret' = [NoRet EXCEPT !.op = "frame"]
     /\ UNCHANGED trips

\* a frame on a site where nothing draws and nobody is spawned
Frame(rawDeltaMs, maxElapsedMs) == FrameDrawn(rawDeltaMs, 0, maxElapsedMs, 0)

(***************************************************************************)
(* SpecClock: two days on a site with no lobby tile and no agent.  The     *)
(* ground row is an office and a food court; the row above is a condo      *)
(* whose two tiles hear both office tiles, and a hallway tile.  Frames     *)
(* come at 20 ms, at the cap, and above the cap.                           *)
(***************************************************************************)
ClockFloors ==
  <<Cell(0, GROUND_ROW), Cell(1, GROUND_ROW), Cell(2, GROUND_ROW), Cell(3, GROUND_ROW),
    Cell(4, GROUND_ROW), Cell(0, GROUND_ROW - 1), Cell(1, GROUND_ROW - 1),
    Cell(2, GROUND_ROW - 1)>>

ClockRooms ==
  <<[tool |-> "office", anchor |-> Cell(0, GROUND_ROW)],
    [tool |-> "food_court", anchor |-> Cell(2, GROUND_ROW)],
    [tool |-> "condo", anchor |-> Cell(0, GROUND_ROW - 1)]>>

RECURSIVE placeRooms(_, _, _)
placeRooms(w, rooms, i) ==
  IF i > Len(rooms) THEN w
  ELSE placeRooms(applyRoomPlacement(w, rooms[i].tool, rooms[i].anchor,
                                     STARTING_FUNDS, 0).w, rooms, i + 1)

ClockSite == placeRooms(spawnFloorSegments(NewWorld, ClockFloors, 1), ClockRooms, 1)

ClockSpent ==
  Len(ClockFloors) * FLOOR_COST + 2 * OFFICE_COST + 3 * FOOD_COURT_COST + 2 * CONDO_COST

ClockDeltas == {20, MAX_DELTA_MS, 250}

InitClock ==
  /\ nextEntityId = ClockSite.nextEntityId
  /\ entities = ClockSite.entities
  /\ components = ClockSite.components
  /\ money = STARTING_FUNDS - ClockSpent
  /\ ret = NoRet
  /\ issued = 1..(ClockSite.nextEntityId - 1)
  /\ trips = 0
  /\ clock = NewClock

NextClock == \E rawDeltaMs \in ClockDeltas : Frame(rawDeltaMs, MaxClockMs)

SpecClock == InitClock /\ [][NextClock]_vars

(***************************************************************************)
(* The site as the claims see it, read off the stores of a world.          *)
(***************************************************************************)
CellsOf(w, key) ==
  {Cell(w.components.position[e].x \div MsPerSecond,
        w.components.position[e].y \div MsPerSecond) :
     e \in (DOMAIN w.components[key]) \cap (DOMAIN w.components.position)}

FloorCells == CellsOf(World, "floor")

ShaftCells == CellsOf(World, "elevator")

Adjacent(c) ==
  {Cell(c.x - 1, c.y), Cell(c.x + 1, c.y), Cell(c.x, c.y - 1), Cell(c.x, c.y + 1)}

Run(start, endX) ==
  {Cell(x, start.y) : x \in Min2(start.x, endX)..Max2(start.x, endX)}

\* entities of world v that world w did not have, holding a floor at cell c
NewFloorsAt(w, v, c) ==
  {e \in v.entities \ w.entities :
     /\ e \in DOMAIN v.components.floor
     /\ e \in DOMAIN v.components.position
     /\ v.components.position[e] = [x |-> c.x * MsPerSecond, y |-> c.y * MsPerSecond]}

\* world v keeps every entity and component of world w as it was
KeepsAll(w, v) ==
  /\ w.entities \subseteq v.entities
  /\ \A k \in ComponentKey : \A e \in DOMAIN w.components[k] :
       e \in DOMAIN v.components[k] /\ v.components[k][e] = w.components[k][e]

WorldUnchanged ==
  /\ entities' = entities
  /\ components' = components
  /\ nextEntityId' = nextEntityId

(***************************************************************************)
(* C3  Placement atomicity: a floor drag either creates one floor entity   *)
(* at every cell of its horizontal run and spends cells x unit cost, or    *)
(* creates and changes nothing, spends 0 and reports changedMap = false.   *)
(* Checked for every drag offered in every reachable site and balance.     *)
(***************************************************************************)
C3_DragAtomic ==
  \A start \in BuildCells, endX \in 0..MaxCol :
    \A r \in {applyFloorDrag(World, start, Cell(endX, start.y), money)} :
      \/ /\ \A c \in Run(start, endX) : Cardinality(NewFloorsAt(World, r.w, c)) = 1
         /\ Cardinality(r.w.entities \ entities) = Cardinality(Run(start, endX))
         /\ KeepsAll(World, r.w)
         /\ r.spent = Cardinality(Run(start, endX)) * FLOOR_COST
         /\ r.changedMap
      \/ /\ r.w = World
         /\ r.spent = 0
         /\ ~r.changedMap

\* a drag of three cells was accepted
C3_Witness ==
  /\ ret.op = "applyFloorDrag"
  /\ ret.changedMap
  /\ ret.spent = 3 * FLOOR_COST
  /\ Cardinality(FloorCells) = 3

(***************************************************************************)
(* C4  Support invariant: every floor tile off the ground row has an       *)
(* axis-adjacent floor tile, after any placements and deletions.           *)
(***************************************************************************)
C4_SupportInvariant ==
  \A c \in FloorCells : c.y # GROUND_ROW => Adjacent(c) \cap FloorCells # {}

(***************************************************************************)
(* C5  Floor placement rule: a batch is accepted exactly when it is        *)
(* affordable, every cell is free of floors and shafts, every cell is on   *)
(* the ground row or next to a floor or a batch cell, and the batch lies   *)
(* on the ground row or touches an existing floor.  With floors at         *)
(* (0..5, ground), (10, ground-1) is rejected and (0, ground-1) accepted.  *)
(* Checked for every batch offered in every reachable site and balance.    *)
(***************************************************************************)
FloorRule(run, row) ==
  /\ money >= Cardinality(run) * FLOOR_COST
  /\ run \cap (FloorCells \cup ShaftCells) = {}
  /\ \A c \in run : c.y = GROUND_ROW \/ Adjacent(c) \cap (FloorCells \cup run) # {}
  /\ row = GROUND_ROW \/ \E c \in run : Adjacent(c) \cap FloorCells # {}

GroundStrip == spawnFloorSegments(NewWorld, [i \in 1..6 |-> Cell(i - 1, GROUND_ROW)], 1)

C5_FloorRule ==
  /\ \A start \in BuildCells, endX \in 0..MaxCol :
       applyFloorDrag(World, start, Cell(endX, start.y), money).changedMap
         <=> FloorRule(Run(start, endX), start.y)
  /\ \A cell \in BuildCells :
       applyToolAtHoveredCell(World, "floor", cell, money, 0).changedMap
         <=> FloorRule({cell}, cell.y)
  /\ ~applyFloorDrag(GroundStrip, Cell(10, GROUND_ROW - 1), Cell(10, GROUND_ROW - 1),
                      STARTING_FUNDS).changedMap
  /\ applyFloorDrag(GroundStrip, Cell(0, GROUND_ROW - 1), Cell(0, GROUND_ROW - 1),
                     STARTING_FUNDS).changedMap

\* a two-cell batch above the ground, supported at one end only, was accepted
C5_Witness ==
  /\ ret.op = "applyFloorDrag"
  /\ ret.changedMap
  /\ ret.spent = 2 * FLOOR_COST
  /\ FloorCells = {Cell(0, GROUND_ROW), Cell(0, GROUND_ROW - 1), Cell(1, GROUND_ROW - 1)}

(***************************************************************************)
(* C6  createEntity returns an id it never returned before, also after     *)
(* destructions, and registers it as a live entity with no components.     *)
(***************************************************************************)
C6_FreshId ==
  [][ret'.op = "createEntity" =>
       /\ ret'.id \notin issued
       /\ ret'.id \notin entities
       /\ entities' = entities \cup {ret'.id}
       /\ \A k \in ComponentKey : ret'.id \notin DOMAIN components'[k]
       /\ components' = components]_vars

\* an entity is created after an earlier one was destroyed
C6_Witness ==
  /\ ret.op = "createEntity"
  /\ issued \ entities # {}

(***************************************************************************)
(* C7  destroyEntity removes the id from the live set and from every       *)
(* component store in one step; stores only ever hold live, created ids;   *)
(* destroying a dead or unknown id changes nothing.                        *)
(***************************************************************************)
StoresHoldLiveIds ==
  /\ \A k \in ComponentKey : DOMAIN components[k] \subseteq entities
  /\ entities \subseteq issued

C7_Destroy ==
  /\ []StoresHoldLiveIds
  /\ [][\A id \in EcsIds :
          DestroyEntity(id) =>
            /\ entities' = entities \ {id}
            /\ \A k \in ComponentKey :
                 components'[k] = [e \in (DOMAIN components[k]) \ {id} |-> components[k][e]]
            /\ (id \notin entities => WorldUnchanged)]_vars

\* an entity holding two components was destroyed
C7_Witness ==
  /\ ret.op = "destroyEntity"
  /\ ret.id \in issued \ entities
  /\ \E e \in entities :
       e \in DOMAIN components.position /\ e \in DOMAIN components.floor

(***************************************************************************)
(* C8  addComponent on an id that is not live fails with an error and      *)
(* leaves every store unchanged; on a live id it sets that entity's        *)
(* component of that kind and nothing else.                                *)
(***************************************************************************)
C8_AddComponent ==
  [][\A id \in EcsIds, key \in EcsKeys : \A c \in EcsValues(key) :
       AddComponent(id, key, c) =>
         IF id \in entities
         THEN /\ ~ret'.threw
              /\ entities' = entities
              /\ components'[key][id] = c
              /\ \A k \in ComponentKey : \A e \in entities :
                   <<k, e>> # <<key, id>> =>
                     /\ (e \in DOMAIN components'[k]) = (e \in DOMAIN components[k])
                     /\ e \in DOMAIN components[k] => components'[k][e] = components[k][e]
         ELSE /\ ret'.threw
              /\ WorldUnchanged]_vars

\* addComponent was refused for a destroyed entity
C8_Witness ==
  /\ ret.op = "addComponent"
  /\ ret.threw
  /\ ret.id \in issued \ entities

(***************************************************************************)
(* Agents and cars as the claims see them.                                 *)
(***************************************************************************)
AgentIds == query(World, {"agent"})

CarIds == query(World, {"elevatorCar"})

AgentOf(e) == components.agent[e]

CarOf(c) == components.elevatorCar[c]

\* the state is one a frame has just left behind
AtTickBoundary == ret.op = "tick"

(***************************************************************************)
(* C1  Capacity bound: in every reachable state every elevator car holds   *)
(* at most capacity occupants, and capacity is 4.                          *)
(***************************************************************************)
C1_CapacityBound ==
  \A c \in CarIds : CarOf(c).capacity = 4 /\ Len(CarOf(c).occupants) <= CarOf(c).capacity

\* a car has loaded four riders and left a fifth caller waiting at the shaft
C1_Witness ==
  \E c \in CarIds :
    /\ Len(CarOf(c).occupants) = 4
    /\ \A i \in 1..4 : AgentOf(CarOf(c).occupants[i]).phase = "RIDING"
    /\ \E e \in AgentIds :
         /\ AgentOf(e).phase = "WAIT_AT_SHAFT"
         /\ AgentOf(e).assignedShaftX = CarOf(c).column
         /\ AgentOf(e).waitMs > 0

(***************************************************************************)
(* C2  Stop queue correctness, at the states a frame leaves behind: every  *)
(* floor in a car's stopQueue has a shaft segment in the car's column and  *)
(* no floor occurs twice in the queue.                                     *)
(***************************************************************************)
C2_StopQueueServed ==
  AtTickBoundary =>
    \A c \in CarIds :
      /\ \A i \in DOMAIN CarOf(c).stopQueue :
           Cell(CarOf(c).column, CarOf(c).stopQueue[i]) \in ShaftCells
      /\ \A i, j \in DOMAIN CarOf(c).stopQueue :
           CarOf(c).stopQueue[i] = CarOf(c).stopQueue[j] => i = j

(***************************************************************************)
(* C9  Unroutable trip: issueTrip to a floor other than the agent's own,   *)
(* when no shaft column has segments on both floors or when the column it  *)
(* chooses has no floor tile on either side on the source floor, returns   *)
(* false and leaves the agent IDLE and angry.  Checked for every agent,    *)
(* target and despawn flag in every reachable state.                       *)
(***************************************************************************)
TripCells == {Cell(x, y) : x \in {0, 3}, y \in (GROUND_ROW - 2)..GROUND_ROW}

\* columns with a shaft segment on both floors
Serving(source, target) ==
  {c.x : c \in {s \in ShaftCells : Cell(s.x, source) \in ShaftCells
                                   /\ Cell(s.x, target) \in ShaftCells}}

\* the oldest shaft segment of a column
FirstSegment(column) ==
  SetMin({e \in DOMAIN components.elevator : components.position[e].x = Tile(column)})

\* the column issueTrip chooses: least detour, then oldest column
Chosen(columns, sourceX, targetX) ==
  CHOOSE c \in columns :
    \A d \in columns \ {c} :
      \/ Abs(sourceX - Tile(c)) + Abs(Tile(targetX) - Tile(c))
           < Abs(sourceX - Tile(d)) + Abs(Tile(targetX) - Tile(d))
      \/ /\ Abs(sourceX - Tile(c)) + Abs(Tile(targetX) - Tile(c))
              = Abs(sourceX - Tile(d)) + Abs(Tile(targetX) - Tile(d))
         /\ FirstSegment(c) < FirstSegment(d)

Unroutable(e, target) ==
  LET source == Round(components.position[e].y)
      columns == Serving(source, target.y)
      column == Chosen(columns, components.position[e].x, target.x)
  IN /\ target.y # source
     /\ \/ columns = {}
        \/ /\ Cell(column - 1, source) \notin FloorCells
           /\ Cell(column + 1, source) \notin FloorCells

C9_UnroutableTrip ==
  \A e \in AgentIds, target \in TripCells, despawnOnArrival \in BOOLEAN :
    Unroutable(e, target) =>
      \A r \in {issueTrip(World, e, target, despawnOnArrival)} :
        /\ ~r.ok
        /\ r.w.components.agent[e].phase = "IDLE"
        /\ r.w.components.agent[e].mood = "angry"

\* a trip was refused although a column serves both floors: its waiting
\* tiles are gone
C9_Witness ==
  /\ ret.op = "issueTrip"
  /\ ~ret.ok
  /\ ret.id \in AgentIds
  /\ AgentOf(ret.id).phase = "IDLE"
  /\ AgentOf(ret.id).mood = "angry"
  /\ Serving(AgentOf(ret.id).sourceFloorY, AgentOf(ret.id).targetFloorY) # {}

(***************************************************************************)
(* C10  Car assignment invariant: at every tick boundary an agent has a    *)
(* car assigned if and only if it is RIDING, or waiting at the shaft with  *)
(* its call registered.                                                    *)
(***************************************************************************)
C10_CarAssignment ==
  AtTickBoundary =>
    \A e \in AgentIds :
      AgentOf(e).assignedCarId # NULL
        <=> \/ AgentOf(e).phase = "RIDING"
            \/ AgentOf(e).phase = "WAIT_AT_SHAFT" /\ AgentOf(e).callRegistered

(***************************************************************************)
(* The next frame as the claims see it: the world ElevatorSystem.update    *)
(* starts from (AgentSystem.update has run) and the world it leaves.       *)
(***************************************************************************)
BeforeElevators == AgentSystemUpdate(World, MAX_DELTA_MS)

AfterElevators == ElevatorSystemUpdate(BeforeElevators, MAX_DELTA_MS)

\* the cars whose column has no shaft segment left when the update starts
Orphaned(w) ==
  {c \in Cars(w) : ShaftFloors(w, getComponent(w, c, "elevatorCar").column) = {}}

\* the agents that name car c
AssignedTo(w, c) ==
  {e \in query(w, {"agent"}) : getComponent(w, e, "agent").assignedCarId = c}

NoDanglingCar ==
  AtTickBoundary =>
    \A e \in AgentIds : AgentOf(e).assignedCarId # NULL => AgentOf(e).assignedCarId \in CarIds

AfterSync ==
  syncCars(BeforeElevators, buildBanks(SeqRange(ShaftColumnsInOrder(BeforeElevators))))

\* the agent holds no car and no call and waits at the shaft
Cleared(agent) ==
  /\ agent.assignedCarId = NULL
  /\ ~agent.callRegistered
  /\ agent.phase = "WAIT_AT_SHAFT"

Forget(w) ==
  [w EXCEPT !.components.agent =
     [e \in DOMAIN @ |-> [@[e] EXCEPT !.waitMs = 0, !.stress = 0, !.mood = "neutral"]]]

Quiescent == Forget(GameUpdate(World, MAX_DELTA_MS)) = Forget(World)

StandsOnFloor(e) ==
  hasFloorAt(World, Round(components.position[e].x), Round(components.position[e].y))

\* the agent was reset when the car of its column was destroyed (only that
\* reset leaves a waiting agent without waitX) and the column is still gone
Stranded(e) ==
  /\ Cleared(AgentOf(e))
  /\ AgentOf(e).waitX = NULL
  /\ AgentOf(e).assignedShaftX # NULL
  /\ ShaftFloors(World, AgentOf(e).assignedShaftX) = {}
  /\ StandsOnFloor(e)
  /\ Serving(AgentOf(e).sourceFloorY, AgentOf(e).targetFloorY) # {}

(***************************************************************************)
(* C12  Re-dispatch after shaft removal: an agent reset to WAIT_AT_SHAFT   *)
(* because the column of its car was deleted, standing on a floor tile     *)
(* while a remaining column serves its source and target floor, is         *)
(* assigned a car again under continued ticks.  Stated for finite runs:    *)
(* no frame leaves such an agent without a call in a world that further    *)
(* frames do not change.                                                   *)
(***************************************************************************)
C12_Redispatched ==
  AtTickBoundary => \A e \in AgentIds : ~(Stranded(e) /\ Quiescent)

\* a car of the bank of the agent's column serves its source and target floor
ServedByBank(e) ==
  LET bankId == buildBankLookup(buildBanks(SeqRange(ShaftColumnsInOrder(World))),
                                AgentOf(e).assignedShaftX)
  IN /\ AgentOf(e).assignedShaftX # NULL
     /\ bankId # NULL
     /\ \E c \in CarIds :
          /\ CarOf(c).bankId = bankId
          /\ AgentOf(e).sourceFloorY \in ShaftFloors(World, CarOf(c).column)
          /\ AgentOf(e).targetFloorY \in ShaftFloors(World, CarOf(c).column)

\* no shaft segment of the site has been deleted
BankIntact == ShaftCells = SeqRange(BankShafts)

(***************************************************************************)
(* C13  No waiting deadlock: without structural edits and new trips, an    *)
(* agent in WAIT_AT_SHAFT while a car of its bank serves its source and    *)
(* target floor reaches RIDING under continued ticks.  Stated for finite   *)
(* runs: on the unedited site no frame leaves such an agent waiting in a   *)
(* world that further frames do not change.                                *)
(***************************************************************************)
C13_NoWaitingDeadlock ==
  (AtTickBoundary /\ BankIntact) =>
    \A e \in AgentIds :
      ~(AgentOf(e).phase = "WAIT_AT_SHAFT" /\ ServedByBank(e) /\ Quiescent)

(***************************************************************************)
(* The loading step of the next frame as the claims see it.  updateCars    *)
(* visits the cars in query order; a car in UNLOADING whose timer runs     *)
(* out in this frame calls loadAtFloor at the floor it stands on.          *)
(***************************************************************************)
\* the world the car loop of updateCars starts from
BeforeCars ==
  LET banks == buildBanks(SeqRange(ShaftColumnsInOrder(BeforeElevators)))
  IN arrangeQueueLines(dispatchCalls(syncCars(BeforeElevators, banks), banks))

\* the world when the loop reaches car c, and when it leaves it
BeforeCar(c) ==
  updateCarsFrom(BeforeCars, SortedSeq({d \in Cars(BeforeCars) : d < c}), 1, MAX_DELTA_MS)

AfterCar(c) == updateCar(BeforeCar(c), c, MAX_DELTA_MS)

Loading ==
  {c \in Cars(BeforeCars) :
     /\ getComponent(BeforeCar(c), c, "elevatorCar").state = "UNLOADING"
     /\ getComponent(BeforeCar(c), c, "elevatorCar").phaseTimerMs <= MAX_DELTA_MS
     /\ getComponent(AfterCar(c), c, "elevatorCar").state = "LOADING"}

\* the callers the car may take at the floor it stands on
Eligible(c) ==
  {e \in Agents(BeforeCar(c)) :
     /\ getComponent(BeforeCar(c), e, "agent").phase = "WAIT_AT_SHAFT"
     /\ getComponent(BeforeCar(c), e, "agent").assignedCarId = c
     /\ getComponent(BeforeCar(c), e, "agent").assignedShaftX
          = getComponent(BeforeCar(c), c, "elevatorCar").column
     /\ Tile(getComponent(BeforeCar(c), e, "agent").sourceFloorY)
          = getComponent(BeforeCar(c), c, "position").y}

Boarded(c) ==
  {e \in Eligible(c) : getComponent(AfterCar(c), e, "agent").phase = "RIDING"}

FreePlaces(c) ==
  Max2(0, getComponent(BeforeCar(c), c, "elevatorCar").capacity
            - Len(getComponent(BeforeCar(c), c, "elevatorCar").occupants))

WaitedMs(c, e) == getComponent(BeforeCar(c), e, "agent").waitMs

(***************************************************************************)
(* C14  Boarding order: when a car loads at a floor, as many eligible      *)
(* callers board as the free places allow, and every caller that boards    *)
(* has waited at least as long as every eligible caller that does not.     *)
(***************************************************************************)
C14_BoardingOrder ==
  \A c \in Loading :
    /\ Cardinality(Boarded(c)) = Min2(FreePlaces(c), Cardinality(Eligible(c)))
    /\ \A b \in Boarded(c), n \in Eligible(c) \ Boarded(c) :
         WaitedMs(c, b) >= WaitedMs(c, n)

\* a car is about to load with more callers than places, a caller that
\* comes late in the query has waited longer than one that comes early
C14_Witness ==
  \E c \in Loading :
    /\ Cardinality(Eligible(c)) > FreePlaces(c)
    /\ \E e, f \in Eligible(c) : e < f /\ WaitedMs(c, e) < WaitedMs(c, f)
    /\ Boarded(c) # {}

\* the world after the next frame, and the world the dispatch of the frame
\* after that leaves
NextFrame == GameUpdate(World, MAX_DELTA_MS)

NextDispatch ==
  LET before == AgentSystemUpdate(NextFrame, MAX_DELTA_MS)
      banks == buildBanks(SeqRange(ShaftColumnsInOrder(before)))
  IN dispatchCalls(syncCars(before, banks), banks)

(***************************************************************************)
(* C15  Overflow riders: an eligible caller that does not fit when a car   *)
(* loads is not destroyed, stays in WAIT_AT_SHAFT with its waitMs as it    *)
(* was, has assignedCarId = null and callRegistered = false right after    *)
(* the loading step and at the end of the frame, and the dispatch of the   *)
(* next frame registers its call again.                                    *)
(***************************************************************************)
C15_OverflowRiders ==
  \A c \in Loading : \A e \in Eligible(c) \ Boarded(c) :
    /\ e \in AfterCar(c).entities
    /\ Cleared(getComponent(AfterCar(c), e, "agent"))
    /\ getComponent(AfterCar(c), e, "agent").waitMs = WaitedMs(c, e)
    /\ e \in NextFrame.entities
    /\ Cleared(getComponent(NextFrame, e, "agent"))
    /\ getComponent(NextFrame, e, "agent").waitMs = WaitedMs(c, e)
    /\ getComponent(NextDispatch, e, "agent").callRegistered
    /\ getComponent(NextDispatch, e, "agent").assignedCarId \in Cars(NextDispatch)

\* a frame has filled a car and left a caller at the shaft without a call
C15_Witness ==
  /\ AtTickBoundary
  /\ \E c \in CarIds, e \in AgentIds :
       /\ CarOf(c).state = "LOADING"
       /\ CarOf(c).phaseTimerMs = LOAD_DURATION_MS
       /\ Len(CarOf(c).occupants) = CarOf(c).capacity
       /\ Cleared(AgentOf(e))
       /\ AgentOf(e).waitMs > 0
       /\ AgentOf(e).assignedShaftX = CarOf(c).column
       /\ Tile(AgentOf(e).sourceFloorY) = components.position[c].y

\* the cars whose LOADING phase ends in the next frame
Departing ==
  {c \in Cars(BeforeCars) :
     /\ getComponent(BeforeCar(c), c, "elevatorCar").state = "LOADING"
     /\ getComponent(BeforeCar(c), c, "elevatorCar").phaseTimerMs <= MAX_DELTA_MS
     /\ getComponent(AfterCar(c), c, "elevatorCar").state # "LOADING"}

StopFloor(c) == Round(getComponent(BeforeCar(c), c, "position").y)

\* the riders of car c that were to leave at the floor of this stop and
\* have no floor tile beside the shaft to step on
KeptAboard(c) ==
  {e \in Agents(BeforeCar(c)) :
     /\ getComponent(BeforeCar(c), e, "agent").phase = "RIDING"
     /\ getComponent(BeforeCar(c), e, "agent").assignedCarId = c
     /\ getComponent(BeforeCar(c), e, "agent").targetFloorY = StopFloor(c)
     /\ ~hasFloorAt(BeforeCar(c), getComponent(BeforeCar(c), c, "elevatorCar").column - 1,
                    StopFloor(c))
     /\ ~hasFloorAt(BeforeCar(c), getComponent(BeforeCar(c), c, "elevatorCar").column + 1,
                    StopFloor(c))}

(***************************************************************************)
(* C16  Unload without exit: a rider whose target is the floor of a stop   *)
(* and who has no floor tile at column-1 or column+1 there stays RIDING    *)
(* in the car, and that floor is still in the car's stopQueue when the     *)
(* LOADING phase of the stop completes.                                    *)
(***************************************************************************)
C16_StopRequeued ==
  \A c \in Departing : \A e \in KeptAboard(c) :
    /\ getComponent(AfterCar(c), e, "agent").phase = "RIDING"
    /\ StopFloor(c) \in SeqRange(getComponent(AfterCar(c), c, "elevatorCar").stopQueue)


(***************************************************************************)
(* The routines of the two earlier schedulers: the worker schedules of     *)
(* Core/Game.ts, kept in a schedule component, and sendAgentsHome.         *)
(***************************************************************************)
DEFAULT_LOBBY_X == 2

\* `if (success) { stage = RETURN_TO_OFFICE; lunchReleaseMinute = null }`
returnToOffice(trip, workerEntity) ==
  IF trip.ok
  THEN [trip.w EXCEPT !.components.schedule[workerEntity].stage = "RETURN_TO_OFFICE",
                      !.components.schedule[workerEntity].lunchReleaseMinute = NULL]
  ELSE trip.w

\* `if (!success) agent.phase = 'IDLE'`
restAtHome(trip, workerEntity) ==
  IF trip.ok THEN trip.w
  ELSE [trip.w EXCEPT !.components.agent[workerEntity].phase = "IDLE"]

\* the body of the loop of updateWorkerSchedules for one worker
updateWorkerSchedule(w, workerEntity, totalMinute) ==
  LET schedule == getComponent(w, workerEntity, "schedule")
      agent == getComponent(w, workerEntity, "agent")
      position == getComponent(w, workerEntity, "position")
  IN IF schedule.stage = "COMMUTE_TO_OFFICE" /\ agent.phase = "AT_TARGET"
       THEN [w EXCEPT !.components.schedule[workerEntity].stage = "AT_OFFICE"]
     ELSE IF schedule.stage = "TO_LUNCH" /\ agent.phase = "AT_TARGET"
       THEN [w EXCEPT !.components.schedule[workerEntity].stage = "AT_LUNCH",
                      !.components.schedule[workerEntity].lunchReleaseMinute =
                         totalMinute + 30]
     ELSE IF /\ schedule.stage = "AT_LUNCH"
             /\ schedule.lunchReleaseMinute # NULL
             /\ totalMinute >= schedule.lunchReleaseMinute
       THEN returnToOffice(
              issueTrip(w, workerEntity, Cell(schedule.officeX, schedule.officeY), FALSE),
              workerEntity)
     ELSE IF schedule.stage = "RETURN_TO_OFFICE" /\ agent.phase = "AT_TARGET"
       THEN [w EXCEPT !.components.schedule[workerEntity].stage = "AT_OFFICE"]
     ELSE IF schedule.stage = "TO_HOME" /\ agent.phase = "IDLE"
       THEN restAtHome(
              issueTrip(w, workerEntity,
                        orElse(findNearestCell(getFloorCellsByZone(w, "LOBBY"), position.x),
                               Cell(schedule.homeX, GROUND_ROW)),
                        TRUE),
              workerEntity)
     ELSE w

RECURSIVE updateSchedules(_, _, _)
updateSchedules(w, ids, totalMinute) ==
  IF ids = <<>> THEN w
  ELSE updateSchedules(updateWorkerSchedule(w, Head(ids), totalMinute), Tail(ids),
                       totalMinute)

updateWorkerSchedules(w, totalMinute) ==
  updateSchedules(w, SortedSeq(query(w, {"agent", "schedule", "position"})), totalMinute)

\* the cells of the floors of the ground row, in the order of the query
getLobbyFloorCells(w) ==
  LET ids == SortedSeq({e \in query(w, {"position", "floor"}) :
                          getComponent(w, e, "position").y = Tile(GROUND_ROW)})
  IN [i \in DOMAIN ids |->
        Cell(getComponent(w, ids[i], "position").x \div MsPerSecond, GROUND_ROW)]

\* fromX in thousandths
pickNearestLobbyX(lobbyCells, fromX) ==
  IF lobbyCells = <<>> THEN DEFAULT_LOBBY_X ELSE findNearestCell(lobbyCells, fromX).x

\* the body of the loop of sendAgentsHome for one agent; that Game names the
\* riding phase RIDING_ELEVATOR and the target destinationX and destinationY
sendAgentHome(w, agentEntity, lobbyCells) ==
  LET position == getComponent(w, agentEntity, "position")
      agent == getComponent(w, agentEntity, "agent")
      lobbyX == pickNearestLobbyX(lobbyCells, position.x)
  IN IF agent.phase = "RIDING"
     THEN SetAgent(w, agentEntity,
            [agent EXCEPT !.targetX = lobbyX, !.targetY = GROUND_ROW,
                          !.targetFloorY = GROUND_ROW, !.despawnOnArrival = TRUE,
                          !.mood = "neutral"])
     ELSE issueTrip(w, agentEntity, Cell(lobbyX, GROUND_ROW), TRUE).w

RECURSIVE sendAgentsHomeFrom(_, _, _)
sendAgentsHomeFrom(w, ids, lobbyCells) ==
  IF ids = <<>> THEN w
  ELSE sendAgentsHomeFrom(sendAgentHome(w, Head(ids), lobbyCells), Tail(ids), lobbyCells)

sendAgentsHome(w) ==
  sendAgentsHomeFrom(w, SortedSeq(query(w, {"position", "agent"})), getLobbyFloorCells(w))

(***************************************************************************)
(* SpecRoutine: a day on a ground row of an office, a lobby tile and a     *)
(* food court, from midnight until after lunch.  Visitors come through the *)
(* lobby from six, the two workers of the office at eight.  Every frame    *)
(* lasts the cap and draws what Math.random returns in it.                 *)
(***************************************************************************)
RoutineFloors ==
  <<Cell(0, GROUND_ROW), Cell(1, GROUND_ROW), Cell(2, GROUND_ROW), Cell(3, GROUND_ROW),
    Cell(4, GROUND_ROW), Cell(5, GROUND_ROW)>>

RoutineRooms ==
  <<[tool |-> "office", anchor |-> Cell(0, GROUND_ROW)],
    [tool |-> "food_court", anchor |-> Cell(3, GROUND_ROW)]>>

RoutineSite == placeRooms(spawnFloorSegments(NewWorld, RoutineFloors, 1), RoutineRooms, 1)

RoutineSpent == Len(RoutineFloors) * FLOOR_COST + 2 * OFFICE_COST + 3 * FOOD_COURT_COST

RoutineDraws == {0, 999}

InitRoutine ==
  /\ nextEntityId = RoutineSite.nextEntityId
  /\ entities = RoutineSite.entities
  /\ components = RoutineSite.components
  /\ money = STARTING_FUNDS - RoutineSpent
  /\ ret = NoRet
  /\ issued = 1..(RoutineSite.nextEntityId - 1)
  /\ trips = 0
  /\ clock = NewClock

NextRoutine ==
  \E rnd \in RoutineDraws : FrameDrawn(MAX_DELTA_MS, rnd, MaxRoutineMs, MaxRoutineAgents)

SpecRoutine == InitRoutine /\ [][NextRoutine]_vars

(***************************************************************************)
(* SpecFunds: the player builds on two ground cells of an empty site in    *)
(* the minutes around the first midnight: floor drags, the OFFICE and      *)
(* DELETE tools, and frames of the game loop in between.  The funds are    *)
(* the starting funds or what two floor tiles and one office cost.         *)
(***************************************************************************)
FundsCells == {Cell(0, GROUND_ROW), Cell(1, GROUND_ROW)}

FundsAtStart == {STARTING_FUNDS, 2 * FLOOR_COST + 2 * OFFICE_COST}

InitFunds ==
  /\ nextEntityId = NewWorld.nextEntityId
  /\ entities = NewWorld.entities
  /\ components = NewWorld.components
  /\ money \in FundsAtStart
  /\ ret = NoRet
  /\ issued = {}
  /\ trips = 0
  /\ clock = NewClock

NextFunds ==
  \/ /\ clock.elapsedMs >= FundsFromMs
     /\ \E start \in FundsCells, end \in FundsCells :
          ApplyFloorDrag(start, end, MaxFundsIds)
  \/ /\ clock.elapsedMs >= FundsFromMs
     /\ \E tool \in {"office", "delete"}, cell \in FundsCells :
          ApplyToolAtHoveredCell(tool, cell, 0, MaxFundsIds)
  \/ /\ nextEntityId <= MaxFundsIds
     /\ Frame(MAX_DELTA_MS, MaxFundsMs)

SpecFunds == InitFunds /\ [][NextFunds]_vars

(***************************************************************************)

(* SpecRide: one shaft column through three floors.  The lobby lies left   *)
(* of it; the two upper floors lie to the right, and only the top floor    *)
(* reaches the shaft.  Visitors in the lobby are sent to the upper floors  *)
(* once they stand still; nothing is built or deleted, and frames keep     *)
(* coming as long as one changes anything.                                 *)
(***************************************************************************)
RideFloors ==
  <<Cell(0, GROUND_ROW), Cell(3, GROUND_ROW), Cell(3, GROUND_ROW - 1),
    Cell(3, GROUND_ROW - 2), Cell(2, GROUND_ROW - 2)>>

RideShafts == <<Cell(1, GROUND_ROW), Cell(1, GROUND_ROW - 1), Cell(1, GROUND_ROW - 2)>>

RideSite ==
  spawnVisitors(
    spawnShaftSegments(spawnFloorSegments(NewWorld, RideFloors, 1), RideShafts, 1),
    Cell(0, GROUND_ROW), RideAgents)

RideSpent == Len(RideFloors) * FLOOR_COST + Len(RideShafts) * ELEVATOR_COST

RideTargets == {Cell(3, GROUND_ROW - 1), Cell(3, GROUND_ROW - 2)}

InitRide ==
  /\ nextEntityId = RideSite.nextEntityId
  /\ entities = RideSite.entities
  /\ components = RideSite.components
  /\ money = STARTING_FUNDS - RideSpent
  /\ ret = NoRet
  /\ issued = RideSite.entities
  /\ trips = 0
  /\ clock = NewClock

NextRide ==
  \/ \E a \in Agents(World), target \in RideTargets :
       /\ getComponent(World, a, "agent").phase \in {"IDLE", "AT_TARGET"}
       /\ IssueTrip(a, target, FALSE, MaxRideTrips)
  \/ Tick(MAX_DELTA_MS, MaxRideIds, MaxRideWaitMs)

SpecRide ==
  /\ InitRide
  /\ [][NextRide]_vars
  /\ WF_vars(Tick(MAX_DELTA_MS, MaxRideIds, MaxRideWaitMs))

(***************************************************************************)

(* The clock as the claims see it.                                         *)
(***************************************************************************)
\* the minutes 1..n in increasing order
MinutesUpTo(n) == [m \in 1..n |-> m]

\* C17: after every frame processMinute has been called exactly once for
\* each minute from 1 to the current minute, in increasing order, whatever
\* the number of minute boundaries the frames crossed; the last processed
\* minute is the current one
C17_MinuteCatchUp ==
  /\ clock.lastProcessedGameMinute = currentGameMinute(clock.elapsedMs)
  /\ clock.processed = MinutesUpTo(currentGameMinute(clock.elapsedMs))

\* a frame at the cap crossed three minute boundaries after frames that
\* crossed one and none
C17_Witness ==
  /\ ret.op = "frame"
  /\ clock.crossed = 3
  /\ clock.elapsedMs = 20 + 20 + MAX_DELTA_MS
  /\ clock.processed = <<1, 2, 3, 4>>


\* the game value of the current state
Game == [w |-> World, money |-> money, processed |-> clock.processed]

\* the minutes processMinute was called with in the last frame
LastMinutes ==
  {clock.processed[i] :
     i \in (Len(clock.processed) - clock.crossed + 1)..Len(clock.processed)}

\* the minutes processMinute is called with in the next frame of rawDeltaMs
NextMinutes(rawDeltaMs) ==
  (clock.lastProcessedGameMinute + 1)
    ..currentGameMinute(clock.elapsedMs + Min2(rawDeltaMs, MAX_DELTA_MS))

Midnights(minutes) == {m \in minutes : toMinuteOfDay(m) = 0}

OccupiedFloors(w) ==
  {e \in query(w, {"position", "floor"}) : getComponent(w, e, "floor").occupied}

\* the sum of rent over the occupied floors
OccupiedRent(w) ==
  Total([e \in OccupiedFloors(w) |-> getComponent(w, e, "floor").rent], OccupiedFloors(w))

Vacated(w) ==
  {e \in query(w, {"position", "floor"}) : ~getComponent(w, e, "floor").occupied}

\* three occupied floors with rents 100, 0 and 250
RentExample ==
  LET w == spawnFloorSegments(NewWorld,
             <<Cell(0, GROUND_ROW), Cell(1, GROUND_ROW), Cell(2, GROUND_ROW)>>, 1)
  IN [w EXCEPT !.components.floor[1].rent = 100, !.components.floor[3].rent = 250]

\* C18: rent collection raises the funds by exactly the sum of rent over the
\* occupied floors, in every site the clock reaches and by 350 for occupied
\* floors of rent 100, 0 and 250; a frame that processes a midnight raises
\* the funds by that sum and any other frame leaves them alone
C18_RentAmount ==
  /\ [](/\ collectRentAtMidnight(Game).money = money + OccupiedRent(World)
        /\ collectRentAtMidnight([Game EXCEPT !.w = RentExample]).money = money + 350)
  /\ [][\A rawDeltaMs \in ClockDeltas :
          Frame(rawDeltaMs, MaxClockMs) =>
            money' = money + Cardinality(Midnights(NextMinutes(rawDeltaMs))) * OccupiedRent(World)]_vars

\* the second midnight has just been processed on a site whose condo tiles
\* were vacated after the first: the office tiles alone paid
C18_Witness ==
  /\ ret.op = "frame"
  /\ 2 * MINUTES_PER_DAY \in LastMinutes
  /\ Cardinality(Vacated(World)) = 2
  /\ money = STARTING_FUNDS - ClockSpent + 400 + 200


\* the floating texts of after that before did not have
SpawnedTexts(before, after) ==
  {t \in query(after, {"position", "floatingText"}) : t \notin before.entities}

\* the texts among spawned that show the rent of floor f of before, dy above
\* its tile and ageMs old
TextsOf(before, after, f, dy, ageMs) ==
  {t \in SpawnedTexts(before, after) :
     /\ getComponent(after, t, "position").x = getComponent(before, f, "position").x
     /\ getComponent(after, t, "position").y = getComponent(before, f, "position").y - dy
     /\ getComponent(after, t, "floatingText").text
          = <<"+$", getComponent(before, f, "floor").rent>>
     /\ getComponent(after, t, "floatingText").ageMs = ageMs}

\* after holds one spawned text for each floor of floors, and no other
OneTextEach(before, after, floors, dy, ageMs) ==
  /\ Cardinality(SpawnedTexts(before, after)) = Cardinality(floors)
  /\ \A f \in floors : Cardinality(TextsOf(before, after, f, dy, ageMs)) = 1

Collected(w) == collectRentAtMidnight([Game EXCEPT !.w = w]).w

\* C19 as stated: rent collection spawns one floating text for every
\* occupied floor, at the floor's position; three for occupied floors of
\* rent 100, 0 and 250
C19_RentTexts ==
  /\ OneTextEach(RentExample, Collected(RentExample), OccupiedFloors(RentExample), 0, 0)
  /\ Cardinality(SpawnedTexts(RentExample, Collected(RentExample))) = 3
  /\ OneTextEach(World, Collected(World), OccupiedFloors(World), 0, 0)

\* how far a text has risen once FloatingTextSystem.update has run for deltaMs
Rise(deltaMs) == (800 * deltaMs) \div MsPerSecond

\* C19 amended: rent collection spawns one floating text for every occupied
\* floor with a rent above zero, 0.15 tiles above the floor's position and
\* showing its rent: two for occupied floors of rent 100, 0 and 250; at the
\* end of a frame that processed a midnight these texts have the age of the
\* frame and have risen for it
C19_RentTextsPaying ==
  /\ [](/\ OneTextEach(RentExample, Collected(RentExample), RentPayers(RentExample), 150, 0)
        /\ Cardinality(SpawnedTexts(RentExample, Collected(RentExample))) = 2
        /\ OneTextEach(World, Collected(World), RentPayers(World), 150, 0))
  /\ [][\A rawDeltaMs \in ClockDeltas :
          Frame(rawDeltaMs, MaxClockMs) =>
            OneTextEach(World, World',
                        IF Midnights(NextMinutes(rawDeltaMs)) = {} THEN {}
                        ELSE RentPayers(World),
                        150 + Rise(Min2(rawDeltaMs, MAX_DELTA_MS)),
                        Min2(rawDeltaMs, MAX_DELTA_MS))]_vars

\* the first midnight has just been processed: the two office tiles and the
\* two condo tiles have a text each, the food court and the hallway none
C19_Witness ==
  /\ ret.op = "frame"
  /\ MINUTES_PER_DAY \in LastMinutes
  /\ Cardinality(query(World, {"position", "floatingText"})) = 4
  /\ Cardinality(OccupiedFloors(World)) = 8


(***************************************************************************)
(* The dispatch pass of the next update as the claims see it.              *)
(***************************************************************************)
DispatchBanks == buildBanks(SeqRange(ShaftColumnsInOrder(BeforeElevators)))

DispatchOrder == SortedSeq(Agents(AfterSync))

\* the world when the agent loop of dispatchCalls reaches its k-th agent
DispatchTurn(k) ==
  dispatchAgents(AfterSync, SubSeq(DispatchOrder, 1, k - 1), 1, DispatchBanks)

\* a waiting agent without a confirmed call
Uncalled(agent) ==
  /\ agent.phase = "WAIT_AT_SHAFT"
  /\ ~(agent.callRegistered /\ agent.assignedCarId # NULL)
  /\ agent.assignedShaftX # NULL
  /\ agent.sourceFloorY # NULL
  /\ agent.targetFloorY # NULL

\* the cars of the agent's bank whose column serves both floors of its trip
ServingBoth(w, agent) ==
  {c \in Cars(w) :
     /\ \E b \in DOMAIN DispatchBanks :
          /\ agent.assignedShaftX \in SeqRange(DispatchBanks[b].columns)
          /\ getComponent(w, c, "elevatorCar").column \in SeqRange(DispatchBanks[b].columns)
     /\ \E s, t \in query(w, {"position", "elevator"}) :
          /\ getComponent(w, s, "position")
               = PositionOf(Cell(getComponent(w, c, "elevatorCar").column, agent.sourceFloorY))
          /\ getComponent(w, t, "position")
               = PositionOf(Cell(getComponent(w, c, "elevatorCar").column, agent.targetFloorY))}

\* the score of the claim in ten-thousandths of a floor
Score10(w, c, agent) ==
  LET car == getComponent(w, c, "elevatorCar")
      away == Abs(getComponent(w, c, "position").y - Tile(agent.sourceFloorY))
      against == car.direction # "NONE" /\ car.direction # agent.desiredDirection
  IN 10 * away
       + (IF against THEN 80000 ELSE 0)
       + 20000 * Len(car.occupants)
       + 14000 * Len(car.stopQueue)
       + 8000 * Abs(car.column - agent.assignedShaftX)

Lowest(w, agent) ==
  {c \in ServingBoth(w, agent) :
     \A d \in ServingBoth(w, agent) : Score10(w, c, agent) <= Score10(w, d, agent)}

\* C20: when the dispatch pass reaches a waiting agent without a confirmed
\* call, the agent is given the car of lowest score among the cars of its
\* bank that serve its source and target floor, the earliest created of
\* them on equal scores, and is left as it was when no car serves both
C20_DispatchChoice ==
  \A k \in DOMAIN DispatchOrder :
    LET w == DispatchTurn(k)
        agent == getComponent(w, DispatchOrder[k], "agent")
        after == getComponent(dispatchAgent(w, DispatchOrder[k], DispatchBanks),
                              DispatchOrder[k], "agent")
    IN Uncalled(agent) =>
         IF ServingBoth(w, agent) = {} THEN after = agent
         ELSE /\ after.callRegistered
              /\ after.assignedCarId = SetMin(Lowest(w, agent))

\* the dispatch pass reaches an agent for which two cars have the lowest score
C20_Witness ==
  \E k \in DOMAIN DispatchOrder :
    /\ Uncalled(getComponent(DispatchTurn(k), DispatchOrder[k], "agent"))
    /\ Cardinality(Lowest(DispatchTurn(k), getComponent(DispatchTurn(k), DispatchOrder[k], "agent"))) = 2


(***************************************************************************)
(* The agent pass of the next update as the claims see it.                 *)
(***************************************************************************)
\* the agent neither rides nor leaves through the ground exit
OnFoot(agent) == agent.phase # "RIDING" /\ ~isGroundExitEgressPhase(agent)

\* a floor tile lies under the rounded position of agent e of w
FloorUnder(w, e) ==
  hasFloorAt(w, Round(getComponent(w, e, "position").x),
             Round(getComponent(w, e, "position").y))

\* the tile the walking agent e of w steps on in a frame of deltaMs has no floor
StepsOffFloor(w, e, deltaMs) ==
  LET agent == getComponent(w, e, "agent")
      x == getComponent(w, e, "position").x
      reach == (agent.speed * deltaMs) \div MsPerSecond
  IN \/ /\ agent.phase = "WALK_TO_SHAFT"
        /\ agent.assignedShaftX # NULL /\ agent.waitX # NULL /\ agent.sourceFloorY # NULL
        /\ ~hasFloorAt(w, Round(moveTowards(x, Tile(agent.waitX), reach).value),
                       agent.sourceFloorY)
     \/ /\ agent.phase = "WALK_TO_TARGET"
        /\ ~hasFloorAt(w, Round(moveTowards(x, Tile(agent.targetX), reach).value),
                       agent.targetY)

\* the cells the DELETE tool is tried on
DeleteCells ==
  {Cell(x, y) : x \in 0..3, y \in (GROUND_ROW - 2)..GROUND_ROW}

\* C21: the DELETE tool destroys no agent; an agent on foot whose rounded
\* position has no floor tile, or whose next step on its walking row has
\* none, is destroyed by the next AgentSystem.update, and every agent on
\* foot that the update leaves alive stands on a floor tile
C21_NoFloorNoAgent ==
  /\ \A cell \in DeleteCells :
       Agents(applyToolAtHoveredCell(World, "delete", cell, money, 0).w) = Agents(World)
  /\ \A e \in Agents(World) :
       /\ OnFoot(AgentOf(e))
       /\ ~FloorUnder(World, e) \/ StepsOffFloor(World, e, MAX_DELTA_MS)
       => e \notin BeforeElevators.entities
  /\ \A e \in Agents(BeforeElevators) :
       OnFoot(getComponent(BeforeElevators, e, "agent")) => FloorUnder(BeforeElevators, e)

\* the player has just deleted the tile an agent on foot stands on
C21_Witness ==
  /\ ret.op = "applyToolAtHoveredCell"
  /\ ret.changedMap
  /\ \E e \in Agents(World) :
       /\ OnFoot(AgentOf(e))
       /\ ~FloorUnder(World, e)
       /\ e \notin BeforeElevators.entities


\* agent e arrives at its target in the next frame and leaves the site there
Despawns(e) ==
  /\ AgentOf(e).phase = "WALK_TO_TARGET"
  /\ moveTowards(components.position[e].x, Tile(AgentOf(e).targetX),
                 (AgentOf(e).speed * MAX_DELTA_MS) \div MsPerSecond).arrived
  /\ AgentOf(e).despawnOnArrival
  /\ AgentOf(e).targetY = GROUND_ROW

\* C22: where the player deletes nothing, the next update destroys an agent
\* exactly when the agent arrives in it at a target on the ground row with
\* despawnOnArrival set; an agent walking to the shaft or target it was
\* routed to is not destroyed
C22_AgentLifecycle ==
  \A e \in Agents(World) : e \notin NextFrame.entities <=> Despawns(e)


(***************************************************************************)
(* Stress and mood over the next update as the claims see them.            *)
(***************************************************************************)
\* the agents the next update leaves alive
Survivors == Agents(World) \cap Agents(NextFrame)

\* the agent waits at the shaft and its wait is past the threshold once the
\* frame is added to it
WaitsTooLong(e) ==
  /\ AgentOf(e).phase = "WAIT_AT_SHAFT"
  /\ AgentOf(e).waitMs + MAX_DELTA_MS > WAIT_STRESS_THRESHOLD_MS

StressAfter(e) == getComponent(NextFrame, e, "agent").stress

Gained == (6 * MAX_DELTA_MS * MAX_STRESS) \div (100 * MsPerSecond)

Cooled == (22 * MAX_DELTA_MS * MAX_STRESS) \div (1000 * MsPerSecond)

\* C23 as stated: stress stays within [0, 100]; over an update it rises only
\* for an agent waiting at the shaft past 15000 ms, by 6 per second up to
\* 100, and for every other agent it falls by 2.2 per second down to 0
C23_StressAccumulator ==
  /\ \A e \in Agents(World) : AgentOf(e).stress >= 0 /\ AgentOf(e).stress <= MAX_STRESS
  /\ \A e \in Survivors :
       IF WaitsTooLong(e)
       THEN StressAfter(e) = Min2(MAX_STRESS, AgentOf(e).stress + Gained)
       ELSE StressAfter(e) = Max2(0, AgentOf(e).stress - Cooled)

\* the agent takes a branch of the update that leaves its stress alone:
\* waiting at the shaft, or walking to a shaft without a route
StressKept(e) ==
  \/ AgentOf(e).phase = "WAIT_AT_SHAFT"
  \/ /\ AgentOf(e).phase = "WALK_TO_SHAFT"
     /\ \/ AgentOf(e).assignedShaftX = NULL
        \/ AgentOf(e).waitX = NULL
        \/ AgentOf(e).sourceFloorY = NULL

\* C23 amended: stress stays within [0, 100]; over an update it rises only
\* for an agent waiting at the shaft past 15000 ms, by 6 per second up to
\* 100; an agent waiting below the threshold keeps its stress, and every
\* other agent cools by 2.2 per second down to 0
C23_StressNeverRisesElsewhere ==
  /\ \A e \in Agents(World) : AgentOf(e).stress >= 0 /\ AgentOf(e).stress <= MAX_STRESS
  /\ \A e \in Survivors :
       IF WaitsTooLong(e)
       THEN StressAfter(e) = Min2(MAX_STRESS, AgentOf(e).stress + Gained)
       ELSE IF StressKept(e) THEN StressAfter(e) = AgentOf(e).stress
       ELSE StressAfter(e) = Max2(0, AgentOf(e).stress - Cooled)

\* an agent that gathered stress waits again, below the threshold
C23_Witness ==
  /\ AtTickBoundary
  /\ \E e \in Survivors :
       /\ AgentOf(e).phase = "WAIT_AT_SHAFT"
       /\ ~WaitsTooLong(e)
       /\ AgentOf(e).stress > 0
       /\ StressAfter(e) = AgentOf(e).stress


\* the agents whose phase becomes AT_TARGET in the next update
Arriving ==
  {e \in Survivors :
     /\ AgentOf(e).phase # "AT_TARGET"
     /\ getComponent(NextFrame, e, "agent").phase = "AT_TARGET"}

\* C24: an agent whose phase becomes AT_TARGET in an update and that is not
\* despawned has the mood happy at the end of that update, whatever its
\* stress
C24_ArrivalMood ==
  \A e \in Arriving : getComponent(NextFrame, e, "agent").mood = "happy"


(***************************************************************************)
(* Room placement as the claims see it.                                    *)
(***************************************************************************)
RoomWidth(tool) == IF tool = "food_court" THEN 3 ELSE 2

RoomUnitCost(tool) ==
  IF tool = "office" THEN 700 ELSE IF tool = "condo" THEN 900 ELSE 1200

\* the tiles of the room, extending right from the anchor
RoomTiles(tool, anchor) == {Cell(anchor.x + d, anchor.y) : d \in 0..(RoomWidth(tool) - 1)}

\* the floors of w on the cell
FloorsOn(w, cell) ==
  {e \in query(w, {"position", "floor"}) : getComponent(w, e, "position") = PositionOf(cell)}

\* the conditions of the claim for a room to be placed
MayPlace(w, tool, anchor, funds) ==
  /\ funds >= RoomWidth(tool) * RoomUnitCost(tool)
  /\ tool = "condo" => anchor.y # GROUND_ROW
  /\ tool = "food_court" => anchor.y = GROUND_ROW
  /\ \A cell \in RoomTiles(tool, anchor) :
       \E e \in FloorsOn(w, cell) : getComponent(w, e, "floor").zone \in {"HALLWAY", "LOBBY"}

\* C25: a room tool succeeds exactly when the funds cover width x unit cost,
\* the row rule holds and every footprint tile holds a hallway or lobby
\* floor; then every footprint tile has the room's zone and the width x unit
\* cost is spent; otherwise the world is unchanged and nothing is spent
C25_RoomPlacement ==
  \A tool \in {"office", "condo", "food_court"}, anchor \in RoomCells, rnd \in {0, 5} :
    LET r == applyToolAtHoveredCell(World, tool, anchor, money, rnd)
    IN /\ r.changedMap <=> MayPlace(World, tool, anchor, money)
       /\ r.changedMap =>
            /\ r.spent = RoomWidth(tool) * RoomUnitCost(tool)
            /\ \A cell \in RoomTiles(tool, anchor) : \A e \in FloorsOn(r.w, cell) :
                 getComponent(r.w, e, "floor").zone = RoomZone(tool)
       /\ ~r.changedMap => r.w = World /\ r.spent = 0

\* a food court has just been placed below an office: an office that would
\* overlap the food court is refused although the funds would pay for it
C25_Witness ==
  /\ ret.op = "applyToolAtHoveredCell"
  /\ ret.changedMap
  /\ ret.spent = 3 * FOOD_COURT_COST
  /\ \E e \in FloorsOn(World, Cell(0, GROUND_ROW - 1)) : components.floor[e].zone = "OFFICE"
  /\ \E e \in FloorsOn(World, Cell(2, GROUND_ROW)) : components.floor[e].zone = "FOOD_COURT"
  /\ ~MayPlace(World, "office", Cell(2, GROUND_ROW), STARTING_FUNDS)


(***************************************************************************)
(* The routines as the claims see them.                                    *)
(***************************************************************************)
\* the fields of an agent that AgentSystem.issueTrip writes
Engine(agent) ==
  <<agent.phase, agent.mood, agent.targetX, agent.targetY, agent.targetFloorY,
    agent.sourceFloorY, agent.desiredDirection, agent.assignedShaftX, agent.waitX,
    agent.assignedCarId, agent.callRegistered, agent.waitMs, agent.despawnOnArrival>>

\* where a routine may send an agent: a floor of the site or an exit off screen
TripTargets(w) ==
  {Cell(-2, GROUND_ROW), Cell(GRID_COLUMNS + 2, GROUND_ROW)}
    \cup {Cell(getComponent(w, f, "position").x \div MsPerSecond,
               getComponent(w, f, "position").y \div MsPerSecond) :
            f \in query(w, {"position", "floor"})}

\* after has agent e as a call of issueTrip on before leaves it
IssuedTrip(before, after, e) ==
  \E target \in TripTargets(before), despawnOnArrival \in BOOLEAN :
     Engine(getComponent(after, e, "agent"))
       = Engine(getComponent(issueTrip(before, e, target, despawnOnArrival).w, e, "agent"))

\* from before to after no agent is lost, and an agent whose phase differs
\* is as issueTrip leaves it
PhaseByTripOnly(before, after) ==
  \A e \in query(before, {"agent"}) :
     /\ e \in query(after, {"agent"})
     /\ getComponent(after, e, "agent").phase # getComponent(before, e, "agent").phase
          => IssuedTrip(before, after, e)

\* the three steps of processMinute keep to it, for every minute from minute
\* to current, each on the game the minutes before have left
RECURSIVE RoutinesKeepPhase(_, _, _)
RoutinesKeepPhase(g, minute, current) ==
  \/ minute > current
  \/ \E spawned \in {spawnAutonomousTraffic(g, minute, toMinuteOfDay(minute))} :
     \E routed \in {updateAutonomousRoutines(spawned, minute, toMinuteOfDay(minute))} :
     \E done \in {processMinuteOfDay(routed, minute, toMinuteOfDay(minute))} :
        /\ PhaseByTripOnly(g.w, spawned.w)
        /\ PhaseByTripOnly(spawned.w, routed.w)
        /\ PhaseByTripOnly(routed.w, done.w)
        /\ RoutinesKeepPhase(done, minute + 1, current)

Stages ==
  {"COMMUTE_TO_OFFICE", "AT_OFFICE", "TO_LUNCH", "AT_LUNCH", "RETURN_TO_OFFICE", "TO_HOME"}

\* w with every agent a worker of the schedules at the stage, its lunch over
Scheduled(w, stage) ==
  [w EXCEPT !.components.schedule =
     [e \in query(w, {"agent", "position"}) |->
        [role |-> "OFFICE_WORKER", stage |-> stage, officeX |-> 0, officeY |-> GROUND_ROW,
         homeX |-> DEFAULT_LOBBY_X,
         lunchReleaseMinute |-> IF stage = "AT_LUNCH" THEN clock.lastProcessedGameMinute
                                ELSE NULL]]]

AtLunch ==
  {e \in Agents(World) :
     /\ components.agent[e].archetype \in {"OFFICE_WORKER", "RESIDENT"}
     /\ components.agent[e].workX # NULL
     /\ components.agent[e].routine = "LUNCH_BREAK"}

\* the minute of the day is in office hours
OfficeHours(totalMinute) ==
  /\ toMinuteOfDay(totalMinute) >= MORNING_MINUTE
  /\ toMinuteOfDay(totalMinute) < EVENING_MINUTE

\* C27: a worker routed to lunch at minute m (its nextActionMinute is m + 30)
\* is held for 30 minutes: no frame whose minutes end before m + 30 has a
\* routine issue it another trip, and a frame that starts at m + 30 or later
\* in office hours with the worker AT_TARGET or IDLE sends it back to its
\* work cell
C27_LunchHold ==
  [][\A e \in AtLunch :
       /\ /\ e \in entities'
          /\ clock'.lastProcessedGameMinute < components.agent[e].nextActionMinute
          => components'.agent[e].routine = "LUNCH_BREAK"
       /\ /\ components.agent[e].phase \in {"AT_TARGET", "IDLE"}
          /\ clock'.crossed > 0
          /\ clock.lastProcessedGameMinute + 1 >= components.agent[e].nextActionMinute
          /\ OfficeHours(clock.lastProcessedGameMinute + 1)
          => /\ components'.agent[e].routine = "COMMUTING_TO_WORK"
             /\ components'.agent[e].targetX = components.agent[e].workX
             /\ components'.agent[e].targetY = components.agent[e].workY]_vars



(***************************************************************************)
(* What one turn of the dispatch pass leaves behind.                       *)
(***************************************************************************)
\* how often floor stands in the stop queue
Queued(stops, floor) == Cardinality({i \in DOMAIN stops : stops[i] = floor})

\* a shaft segment stands at column x of floor y
ShaftAt(w, x, y) ==
  \E s \in query(w, {"position", "elevator"}) :
    getComponent(w, s, "position") = PositionOf(Cell(x, y))

\* the k-th turn of the dispatch pass gives its agent a car
Assigns(k) ==
  /\ Uncalled(getComponent(DispatchTurn(k), DispatchOrder[k], "agent"))
  /\ getComponent(DispatchTurn(k + 1), DispatchOrder[k], "agent").assignedCarId
       # getComponent(DispatchTurn(k), DispatchOrder[k], "agent").assignedCarId

\* C28: right after the dispatch pass gives a waiting agent a car, the
\* agent's call is registered against that car, the car's column has a shaft
\* segment on the source and on the target floor of the trip, and the car's
\* stop queue holds each of the two floors exactly once
C28_DispatchEffect ==
  \A k \in DOMAIN DispatchOrder :
    LET before == getComponent(DispatchTurn(k), DispatchOrder[k], "agent")
        w == DispatchTurn(k + 1)
        agent == getComponent(w, DispatchOrder[k], "agent")
        car == getComponent(w, agent.assignedCarId, "elevatorCar")
    IN Assigns(k) =>
         /\ agent.callRegistered
         /\ agent.assignedCarId \in Cars(w)
         /\ ShaftAt(w, car.column, before.sourceFloorY)
         /\ ShaftAt(w, car.column, before.targetFloorY)
         /\ Queued(car.stopQueue, before.sourceFloorY) = 1
         /\ Queued(car.stopQueue, before.targetFloorY) = 1

\* the dispatch pass gives an agent a car whose queue already held the
\* source floor of the trip
C28_Witness ==
  \E k \in DOMAIN DispatchOrder :
    /\ Assigns(k)
    /\ LET w == DispatchTurn(k)
           after == getComponent(DispatchTurn(k + 1), DispatchOrder[k], "agent")
       IN /\ getComponent(w, DispatchOrder[k], "agent").sourceFloorY
               \in SeqRange(getComponent(w, after.assignedCarId, "elevatorCar").stopQueue)
          /\ getComponent(w, DispatchOrder[k], "agent").sourceFloorY
               # getComponent(w, DispatchOrder[k], "agent").targetFloorY



(***************************************************************************)
(* An agent that dispatch moved to another column of its bank.             *)
(***************************************************************************)
\* the k-th turn of the dispatch pass gives its agent a car that stands in
\* another column than the one the agent waits at
Crosses(k) ==
  /\ Assigns(k)
  /\ getComponent(DispatchTurn(k + 1),
                  getComponent(DispatchTurn(k + 1), DispatchOrder[k], "agent").assignedCarId,
                  "elevatorCar").column
       # getComponent(DispatchTurn(k), DispatchOrder[k], "agent").assignedShaftX

\* agent e walks to the column of the car dispatch gave it
Rerouted(e) ==
  /\ AgentOf(e).phase = "WALK_TO_SHAFT"
  /\ AgentOf(e).callRegistered
  /\ AgentOf(e).assignedCarId \in CarIds

\* C29: a turn of the dispatch pass that gives the agent a car of another
\* column sets assignedShaftX to that column, waitX to a floor tile next to
\* it and the phase to WALK_TO_SHAFT; where nothing is built or deleted, the
\* next update leaves such an agent alive, either still walking to that
\* tile or waiting on it
C29_CrossColumnWalk ==
  /\ \A k \in DOMAIN DispatchOrder :
       LET w == DispatchTurn(k + 1)
           agent == getComponent(w, DispatchOrder[k], "agent")
           car == getComponent(w, agent.assignedCarId, "elevatorCar")
       IN Crosses(k) =>
            /\ agent.assignedShaftX = car.column
            /\ agent.waitX \in {car.column - 1, car.column + 1}
            /\ hasFloorAt(w, agent.waitX, agent.sourceFloorY)
            /\ agent.phase = "WALK_TO_SHAFT"
  /\ \A e \in AgentIds :
       Rerouted(e) =>
         /\ e \in Agents(NextFrame)
         /\ getComponent(NextFrame, e, "agent").assignedShaftX = AgentOf(e).assignedShaftX
         /\ getComponent(NextFrame, e, "agent").waitX = AgentOf(e).waitX
         /\ \/ getComponent(NextFrame, e, "agent").phase = "WALK_TO_SHAFT"
            \/ /\ getComponent(NextFrame, e, "agent").phase = "WAIT_AT_SHAFT"
               /\ getComponent(NextFrame, e, "position").x = Tile(AgentOf(e).waitX)

\* every agent that walks with a registered call was moved to the column of
\* its car
ReroutedToCar ==
  \A e \in AgentIds :
    Rerouted(e) => CarOf(AgentOf(e).assignedCarId).column = AgentOf(e).assignedShaftX



(***************************************************************************)
(* Commits of the placement tools that place nothing.                      *)
(***************************************************************************)
PlacementTools == {"floor", "elevator", "office", "condo", "food_court"}

CommitCells == {Cell(x, y) : x \in 0..MaxCol, y \in (GROUND_ROW - MaxUp)..GROUND_ROW}

\* the tile is invalid for the tool or the funds do not cover it
Rejects(w, tool, cell, funds) ==
  IF IsRoomTool(tool) THEN ~MayPlace(w, tool, cell, funds)
  ELSE funds < TOOL_COSTS(tool) \/ ~isValidPlacement(w, tool, cell)

\* the commit of the tool on the cell changes nothing and says why
Reported(w, tool, cell, funds) ==
  LET r == applyToolAtHoveredCell(w, tool, cell, funds, 0)
  IN /\ r.errorMessage # ""
     /\ ~r.changedMap
     /\ r.spent = 0
     /\ r.w = w

\* C30: every commit of the FLOOR, ELEVATOR, OFFICE, CONDO or FOOD_COURT
\* tool on an invalid tile or with insufficient funds returns a non-empty
\* error string, spends nothing and leaves the world as it was
C30_RejectionsReported ==
  \A tool \in PlacementTools, cell \in CommitCells :
    Rejects(World, tool, cell, money) => Reported(World, tool, cell, money)

\* the same for the tools other than ELEVATOR
OtherRejectionsReported ==
  \A tool \in PlacementTools \ {"elevator"}, cell \in CommitCells :
    Rejects(World, tool, cell, money) => Reported(World, tool, cell, money)

\* a rejected ELEVATOR commit changes nothing and spends nothing
ElevatorRejectionSilent ==
  \A cell \in CommitCells :
    Rejects(World, "elevator", cell, money) =>
      LET r == applyToolAtHoveredCell(World, "elevator", cell, money, 0)
      IN r.errorMessage = "" /\ ~r.changedMap /\ r.spent = 0 /\ r.w = World



(***************************************************************************)
(* The state machine of a car over one update.                             *)
(***************************************************************************)
\* the stop queue of car c as its turn of the car loop of the next update
\* finds it, unserved floors and repeats removed
QueueAtUpdate(c) ==
  LET car == getComponent(BeforeCar(c), c, "elevatorCar")
  IN dedupeStops(SelectSeq(car.stopQueue,
                           LAMBDA stop : stop \in ShaftFloors(BeforeCar(c), car.column)))

\* the cars the step keeps
KeptCars == CarIds \cap {c \in entities' : c \in DOMAIN components'.elevatorCar}

\* the step of car c along the arrows of the state machine
CarArrow(c) ==
  LET old == CarOf(c)
      new == components'.elevatorCar[c]
  IN \/ new.state = old.state
     \/ /\ old.state = "IDLE"
        /\ new.state = "MOVING"
     \/ /\ old.state = "MOVING"
        /\ new.state = "UNLOADING"
        /\ QueueAtUpdate(c) # <<>>
        /\ components'.position[c].y = Tile(QueueAtUpdate(c)[1])
     \/ /\ old.state = "UNLOADING"
        /\ new.state = "LOADING"
        /\ old.phaseTimerMs <= MAX_DELTA_MS
     \/ /\ old.state = "LOADING"
        /\ new.state \in {"MOVING", "IDLE"}
        /\ old.phaseTimerMs <= MAX_DELTA_MS
        /\ new.state = "MOVING" <=> new.stopQueue # <<>>

\* an idle car starts exactly when its queue is not empty at its update
IdleStarts(c) ==
  CarOf(c).state = "IDLE" =>
    (components'.elevatorCar[c].state = "MOVING" <=> QueueAtUpdate(c) # <<>>)

\* a moving car whose queue is empty at its update goes idle
MovingGivesUp(c) ==
  /\ CarOf(c).state = "MOVING"
  /\ components'.elevatorCar[c].state = "IDLE"
  /\ QueueAtUpdate(c) = <<>>

\* C31 as stated: over an update a car's state changes only along IDLE ->
\* MOVING (exactly when its queue is not empty at its update), MOVING ->
\* UNLOADING (at the first queued stop, the position snapped to it),
\* UNLOADING -> LOADING and LOADING -> MOVING or IDLE (when the timer runs
\* out, MOVING iff stops remain); a moving car has a non-empty stop queue
C31_CarStateMachine ==
  [][ret'.op = "tick" =>
       \A c \in KeptCars :
         /\ CarArrow(c)
         /\ IdleStarts(c)
         /\ components'.elevatorCar[c].state = "MOVING"
              => components'.elevatorCar[c].stopQueue # <<>>]_vars

\* C31 amended: as stated, with one more arrow, MOVING -> IDLE, taken when
\* the queue of a moving car is empty at its update because the floors it
\* held lost their shaft segments
C31_CarStateMachineWithGiveUp ==
  [][ret'.op = "tick" =>
       \A c \in KeptCars :
         /\ CarArrow(c) \/ MovingGivesUp(c)
         /\ IdleStarts(c)
         /\ components'.elevatorCar[c].state = "MOVING"
              => components'.elevatorCar[c].stopQueue # <<>>]_vars

\* the next update finds a moving car whose only stop lost its shaft segment
\* and leaves it idle
C31_Witness ==
  \E c \in CarIds \cap Cars(NextFrame) :
    /\ CarOf(c).state = "MOVING"
    /\ CarOf(c).stopQueue # <<>>
    /\ QueueAtUpdate(c) = <<>>
    /\ getComponent(NextFrame, c, "elevatorCar").state = "IDLE"



(***************************************************************************)
(* Banks and cars after an update.                                         *)
(***************************************************************************)
\* the columns that hold a shaft segment
ShaftColumns == {c.x : c \in ShaftCells}

\* the columns of the maximal run of shaft columns around column x
RunOf(x) == {y \in ShaftColumns : \A z \in (Min2(x, y))..(Max2(x, y)) : z \in ShaftColumns}

\* runs counted from the left, the run of column x included
RunNumber(x) == Cardinality({y \in ShaftColumns : y <= x /\ y - 1 \notin ShaftColumns})

BanksNow == buildBanks(ShaftColumns)

\* C32: after every update the banks are the maximal runs of consecutive
\* shaft columns, numbered from the left; every shaft column has exactly
\* one car and every car stands in a shaft column; and the bank id of a car
\* is the id of the bank that holds its column
C32_BanksAndCars ==
  AtTickBoundary =>
    /\ \A b \in DOMAIN BanksNow :
         /\ BanksNow[b].id = b
         /\ \E x \in ShaftColumns :
              /\ SeqRange(BanksNow[b].columns) = RunOf(x)
              /\ RunNumber(x) = b
    /\ \A x \in ShaftColumns : \E b \in DOMAIN BanksNow : x \in SeqRange(BanksNow[b].columns)
    /\ \A x \in ShaftColumns : Cardinality({c \in CarIds : CarOf(c).column = x}) = 1
    /\ \A c \in CarIds :
         /\ CarOf(c).column \in ShaftColumns
         /\ CarOf(c).bankId = RunNumber(CarOf(c).column)
         /\ CarOf(c).column \in SeqRange(BanksNow[CarOf(c).bankId].columns)

\* an update has just renumbered a car: its column, once in the second bank,
\* is in the first bank of two columns or more
C32_Witness ==
  /\ AtTickBoundary
  /\ \E c \in CarIds :
       /\ CarOf(c).bankId = 1
       /\ Cardinality(RunOf(CarOf(c).column)) >= 2
       /\ \E d \in CarIds : d > c /\ CarOf(d).column = CarOf(c).column - 1
       /\ \E d \in CarIds : d < c /\ CarOf(d).column < CarOf(c).column - 1



(***************************************************************************)
(* The ELEVATOR tool on every cell of the site.                            *)
(***************************************************************************)
\* the cell is free, and on the ground row or above or below a shaft segment
ShaftFits(w, cell) ==
  /\ FloorsOn(w, cell) = {}
  /\ ~ShaftAt(w, cell.x, cell.y)
  /\ \/ cell.y = GROUND_ROW
     \/ ShaftAt(w, cell.x, cell.y - 1)
     \/ ShaftAt(w, cell.x, cell.y + 1)

\* the cells the tool is tried on: the cells the player edits and the row
\* under the ground row
ShaftTryCells ==
  {Cell(x, y) : x \in 0..MaxCol, y \in (GROUND_ROW - MaxUp)..(GRID_ROWS - 1)}

\* C33: the ELEVATOR tool creates a shaft segment on the cell exactly when
\* the funds cover the elevator cost, the cell holds no floor and no shaft,
\* and the cell is on the ground row or the cell above or below it holds a
\* shaft segment; otherwise it creates nothing and spends nothing
C33_ShaftPlacement ==
  \A cell \in ShaftTryCells :
    LET r == applyToolAtHoveredCell(World, "elevator", cell, money, 0)
    IN IF money >= ELEVATOR_COST /\ ShaftFits(World, cell)
       THEN /\ r.changedMap
            /\ r.spent = ELEVATOR_COST
            /\ r.w.entities = entities \cup {nextEntityId}
            /\ nextEntityId \notin entities
            /\ has(r.w, nextEntityId, "elevator")
            /\ getComponent(r.w, nextEntityId, "position") = PositionOf(cell)
            /\ \A e \in entities, key \in DOMAIN components :
                 has(r.w, e, key) = has(World, e, key)
       ELSE /\ r.w = World
            /\ ~r.changedMap
            /\ r.spent = 0

\* a shaft segment has just been placed above the ground row, on top of the
\* segment below it
C33_Witness ==
  /\ ret.op = "applyToolAtHoveredCell"
  /\ ret.spent = ELEVATOR_COST
  /\ \E x \in 0..MaxCol :
       /\ ShaftAt(World, x, GROUND_ROW)
       /\ ShaftAt(World, x, GROUND_ROW - 1)
       /\ \A e \in entities :
            has(World, e, "elevator") /\ getComponent(World, e, "position") = PositionOf(Cell(x, GROUND_ROW))
            => e < nextEntityId - 1



(***************************************************************************)
(* issueTrip for every agent and every floor tile of the site.             *)
(***************************************************************************)
TripTiles == CellsOf(World, "floor")

\* the shaft columns with a segment on both floors
Through(sourceY, targetY) ==
  {x \in ShaftColumns : ShaftAt(World, x, sourceY) /\ ShaftAt(World, x, targetY)}

\* the walk to column x and from it to the target, in thousandths
Detour(e, target, x) ==
  Abs(components.position[e].x - Tile(x)) + Abs(Tile(target.x) - Tile(x))

\* the column the claim names for the trip
BestShaft(e, target) ==
  LET through == Through(Round(components.position[e].y), target.y)
      lowest == {x \in through : \A y \in through : Detour(e, target, x) <= Detour(e, target, y)}
  IN CHOOSE x \in lowest : \A y \in lowest : FirstSegment(x) <= FirstSegment(y)

\* the waiting tile the claim names for column x
BestWait(e, x) ==
  LET sourceY == Round(components.position[e].y)
      sides == {t \in {x - 1, x + 1} : FloorsOn(World, Cell(t, sourceY)) # {}}
      near == {t \in sides :
                 \A u \in sides : Abs(Tile(t) - components.position[e].x)
                                    <= Abs(Tile(u) - components.position[e].x)}
  IN SetMin(near)

\* C34: when issueTrip succeeds for a target on another floor, the agent is
\* assigned the column with segments on both floors of least detour, the
\* first made on ties, waits on the floor tile beside it that is nearer to
\* the agent, the left one on ties, and walks to the shaft; for a target on
\* its own floor it walks to the target and no shaft is assigned
C34_ShaftSelection ==
  \A e \in AgentIds, target \in TripTiles :
    LET r == issueTrip(World, e, target, FALSE)
        agent == getComponent(r.w, e, "agent")
    IN r.ok =>
         IF Round(components.position[e].y) = target.y
         THEN agent.phase = "WALK_TO_TARGET" /\ agent.assignedShaftX = NULL
         ELSE /\ agent.assignedShaftX = BestShaft(e, target)
              /\ agent.waitX = BestWait(e, agent.assignedShaftX)
              /\ agent.waitX \in {agent.assignedShaftX - 1, agent.assignedShaftX + 1}
              /\ agent.phase = "WALK_TO_SHAFT"

\* a trip for which two columns have the same detour has just been issued
C34_Witness ==
  /\ ret.op = "issueTrip"
  /\ ret.ok
  /\ \E e \in AgentIds :
       /\ AgentOf(e).phase = "WALK_TO_SHAFT"
       /\ AgentOf(e).waitMs = 0
       /\ AgentOf(e).sourceFloorY # AgentOf(e).targetFloorY
       /\ \E x, y \in Through(AgentOf(e).sourceFloorY, AgentOf(e).targetFloorY) :
            /\ x # y
            /\ Detour(e, Cell(AgentOf(e).targetX, AgentOf(e).targetY), x)
                 = Detour(e, Cell(AgentOf(e).targetX, AgentOf(e).targetY), y)



(***************************************************************************)
(* The previews against the commits.                                       *)
(***************************************************************************)
AllTools == PlacementTools \cup {"delete"}

\* C35: for every tool and cell, and for every floor drag along a row, the
\* commit changes the map exactly when the preview of the same state is
\* valid and affordable, and then spends the cost of the preview; a commit
\* that does not change the map spends nothing
C35_PreviewAgreesWithCommit ==
  /\ \A tool \in AllTools, cell \in BuildCells :
       LET preview == getPlacementPreview(World, tool, cell, money)
           r == applyToolAtHoveredCell(World, tool, cell, money, 0)
       IN /\ r.changedMap <=> (preview.valid /\ preview.affordable)
          /\ r.changedMap => r.spent = preview.cost /\ r.w # World
          /\ ~r.changedMap => r.spent = 0 /\ r.w = World
  /\ \A start \in BuildCells, endX \in 0..MaxCol :
       LET preview == getFloorDragPreview(World, start, Cell(endX, start.y), money)
           r == applyFloorDrag(World, start, Cell(endX, start.y), money)
       IN /\ r.changedMap <=> (preview.valid /\ preview.affordable)
          /\ r.changedMap => r.spent = preview.cost /\ r.w # World
          /\ ~r.changedMap => r.spent = 0 /\ r.w = World

\* a drag of two cells has just been built with the last of the funds, as
\* its preview announced, and the floor tool is now valid but not affordable
\* on a free cell
C35_Witness ==
  /\ ret.op = "applyFloorDrag"
  /\ ret.changedMap
  /\ ret.spent = 2 * FLOOR_COST
  /\ money = 0
  /\ \E cell \in BuildCells :
       /\ getPlacementPreview(World, "floor", cell, money).valid
       /\ ~getPlacementPreview(World, "floor", cell, money).affordable
       /\ ~applyToolAtHoveredCell(World, "floor", cell, money, 0).changedMap


(***************************************************************************)
(* The occupants lists of the cars.                                        *)
(***************************************************************************)
\* the live agents that ride car c
Riders(c) ==
  {e \in AgentIds : AgentOf(e).phase = "RIDING" /\ AgentOf(e).assignedCarId = c}

\* C36: at every tick boundary the occupants list of each car holds exactly
\* the live agents that are RIDING with that car as assignedCarId, each
\* once; an agent that issueTrip routed anew or that was destroyed is not
\* listed
C36_OccupantsAreRiders ==
  AtTickBoundary =>
    \A c \in CarIds :
      /\ SeqRange(CarOf(c).occupants) = Riders(c)
      /\ Len(CarOf(c).occupants) = Cardinality(Riders(c))



(***************************************************************************)
(* The funds over every step.                                              *)
(***************************************************************************)
\* the structures of the site
Structures == DOMAIN components.floor \cup DOMAIN components.elevator

\* what the occupied floors with a rent pay together
RentOf(floors) ==
  100 * Cardinality({e \in floors : components.floor[e].occupied /\ components.floor[e].rent = 100})

\* C37: the funds are never negative; a step lowers them only as a commit
\* that changed the map, by what it spent, which the funds covered; a step
\* that takes a structure away gives nothing back; and a step raises them
\* only as a frame, by the rent of a midnight it crosses or by the revenue
\* of a food court that stands on the site
C37_FundsNeverNegative ==
  [][/\ money >= 0
     /\ money' >= 0
     /\ money' < money =>
          /\ ret'.op \in {"applyFloorDrag", "applyToolAtHoveredCell"}
          /\ ret'.changedMap
          /\ ret'.spent = money - money'
          /\ ret'.spent <= money
     /\ ret'.op \in {"applyFloorDrag", "applyToolAtHoveredCell"} =>
          /\ money' = money - ret'.spent
          /\ ~ret'.changedMap => money' = money
          /\ Structures \ entities' # {} => money' = money
     /\ money' > money =>
          /\ ret'.op = "frame"
          /\ \/ /\ Midnights(NextMinutes(MAX_DELTA_MS)) # {}
                /\ money' - money >= RentOf(DOMAIN components.floor)
                /\ RentOf(DOMAIN components.floor) > 0
             \/ \E e \in DOMAIN components.floor : components.floor[e].zone = "FOOD_COURT"
     /\ /\ ret'.op = "frame"
        /\ \A e \in DOMAIN components.floor : components.floor[e].zone # "FOOD_COURT"
        => money' - money
             = Cardinality(Midnights(NextMinutes(MAX_DELTA_MS))) * RentOf(DOMAIN components.floor)
    ]_vars

\* the last of the funds went into an office and the midnight rent of its
\* two tiles has just been paid
C37_Witness ==
  /\ ret.op = "frame"
  /\ money = 200
  /\ Midnights(LastMinutes) # {}
  /\ RentOf(DOMAIN components.floor) = 200



(***************************************************************************)
(* The structures of every cell.                                           *)
(***************************************************************************)
\* the floors and shaft segments that stand on the cell
StructuresOn(cell) == {e \in Structures : components.position[e] = PositionOf(cell)}

\* C38: no cell holds more than one structure, floor or shaft segment; the
\* DELETE tool on a cell with a structure destroys that entity and nothing
\* else, and on an empty cell it changes nothing
C38_OneStructurePerCell ==
  /\ \A e, f \in Structures : components.position[e] = components.position[f] => e = f
  /\ DOMAIN components.floor \cap DOMAIN components.elevator = {}
  /\ \A cell \in BuildCells :
       LET r == applyToolAtHoveredCell(World, "delete", cell, money, 0)
       IN /\ r.spent = 0
          /\ IF StructuresOn(cell) = {}
             THEN r.w = World /\ ~r.changedMap
             ELSE /\ r.changedMap
                  /\ r.w.entities = entities \ StructuresOn(cell)
                  /\ Cardinality(StructuresOn(cell)) = 1
                  /\ r.w.nextEntityId = nextEntityId
                  /\ \A key \in DOMAIN components, e \in r.w.entities :
                       /\ has(r.w, e, key) = has(World, e, key)
                       /\ has(World, e, key) => getComponent(r.w, e, key) = getComponent(World, e, key)

\* the DELETE tool has just cleared a cell between a floor and a shaft segment
C38_Witness ==
  /\ ret.op = "applyToolAtHoveredCell"
  /\ ret.changedMap
  /\ ret.spent = 0
  /\ StructuresOn(Cell(1, GROUND_ROW)) = {}
  /\ StructuresOn(Cell(0, GROUND_ROW)) \cap DOMAIN components.floor # {}
  /\ StructuresOn(Cell(2, GROUND_ROW)) \cap DOMAIN components.elevator # {}



(***************************************************************************)
(* The car and the shaft of a registered call.                             *)
(***************************************************************************)
\* C39: at every tick boundary an agent whose call is registered with a car
\* is assigned the shaft column of that car, also when dispatch chose a car
\* of another column beside which there is no floor tile to wait on
C39_CarMatchesShaft ==
  AtTickBoundary =>
    \A e \in AgentIds :
      AgentOf(e).callRegistered /\ AgentOf(e).assignedCarId \in CarIds
      => AgentOf(e).assignedShaftX = CarOf(AgentOf(e).assignedCarId).column



(***************************************************************************)
(* The ride of an agent to its end.                                        *)
(***************************************************************************)
\* the visitors of the site of SpecRide
RideIds == query(RideSite, {"agent"})

Rides(e) == e \in AgentIds /\ AgentOf(e).phase = "RIDING"

\* the agent has just been let out on its target floor beside a shaft column
Released(e) ==
  /\ e \in AgentIds
  /\ AgentOf(e).phase = "WALK_TO_TARGET"
  /\ components.position[e].y = Tile(AgentOf(e).targetFloorY)
  /\ \E x \in ShaftColumns : components.position[e].x \in {Tile(x - 1), Tile(x + 1)}

\* the riders of a world that further frames leave as it is
StuckRiders == IF Quiescent THEN {e \in RideIds : Rides(e)} ELSE {}

\* C40: where nothing is built or deleted and no trip is issued to an agent
\* on its way, every agent that rides is in the end let out on its target
\* floor beside the shaft: no agent rides in a world that frames no longer
\* change, where it would ride for ever
C40_RiderDelivered == StuckRiders = {}

\* a frame lets no stuck rider go: the world after it is at rest as well
StuckForGood ==
  StuckRiders # {} =>
    Forget(GameUpdate(NextFrame, MAX_DELTA_MS)) = Forget(NextFrame)

\* a rider is stuck in a car that stands idle with nowhere to go
StuckInIdleCar ==
  \E e \in StuckRiders : \E c \in CarIds :
    /\ \E i \in DOMAIN CarOf(c).occupants : CarOf(c).occupants[i] = e
    /\ CarOf(c).state = "IDLE"
    /\ CarOf(c).stopQueue = <<>>

\* a rider has been let out on the top floor
SomeoneReleased == \E e \in AgentIds : Released(e) /\ AgentOf(e).targetFloorY = GROUND_ROW - 2

====
